---- MODULE Spec2Model ----
(***************************************************************************)
(* A model of the motor-diagnosis service (ml_service):                    *)
(*   - predictClass.py : predict_from_file (decision fusion) and           *)
(*                       validate_signal_characteristics (spectral check), *)
(*                       extract_signals_from_mat (second parser)          *)
(*   - utils.py        : convert_mat_to_npz (container parser + assembly)  *)
(*   - machine.py      : SignalGenerator (synthesis + serialization)       *)
(*   - saveMat.py      : create_dspace_struct (serialization)              *)
(*   - app.py          : the upload, monitoring and polling endpoints      *)
(*                                                                         *)
(* Probabilities and confidences are integers in percent (0.7 is 70).      *)
(* Every subsystem has its own specification over the same variables; the  *)
(* variables of the other subsystems stay at their initial value.          *)
(***************************************************************************)
EXTENDS Integers, Sequences, FiniteSets, TLC

VARIABLES
    pc,               \* predict_from_file: position in the function body
    signal_patterns,  \* predict_from_file: result of validate_signal_characteristics
    pred,             \* predict_from_file: raw output of model.predict (percent)
    result,           \* predict_from_file: the returned dictionary
    container,        \* parser: decoded content of the .mat file (mat_data)
    conv,             \* parser: outcome of utils.convert_mat_to_npz
    extr,             \* parser: outcome of predictClass.extract_signals_from_mat
    spectrum,         \* spectral validator: magnitude of the FFT bins of channel i1
    dominant,         \* spectral validator: dominant_freqs after line 38
    gen,              \* generator: state of machine.py's generate/save/parse round trip
    is_monitoring,    \* app.py: the global flag
    last_processed_file,  \* app.py: the global (creation time of the file, 0 for None)
    fs,               \* the files of uploads/ and generated_signals/
    calls,            \* app.py: the requests being served, one record per request
    assembly,         \* utils.py lines 90-99 and predictClass.py line 48 on sample values
    control           \* app.py: the start/stop request being answered and the last one

vars == <<pc, signal_patterns, pred, result, container, conv, extr, spectrum, dominant, gen,
          is_monitoring, last_processed_file, fs, calls, assembly,
          control>>

serviceVars == <<is_monitoring, last_processed_file, fs, calls>>

fusionVars == <<pc, signal_patterns, pred, result>>
parseVars == <<container, conv, extr>>
spectralVars == <<spectrum, dominant>>

Max(a, b) == IF a >= b THEN a ELSE b
Min(a, b) == IF a <= b THEN a ELSE b

(***************************************************************************)
(* predictClass.py: constants                                              *)
(***************************************************************************)
\* CLASS_NAMES = ['cassure', 'sain', 'desiquilibre'], 1-based here
CLASS_NAMES == <<"cassure", "sain", "desiquilibre">>

ClassSet == {CLASS_NAMES[i] : i \in 1..Len(CLASS_NAMES)}

\* CONFIDENCE_THRESHOLD = 0.7
CONFIDENCE_THRESHOLD == 70

\* max(confidence, 0.65): the confidence floor of the forced healthy state
HEALTHY_FLOOR == 65

\* min(0.3, class_probs[...]): the ceiling of the two fault probabilities
FAULT_CEILING == 30

\* min(confidence, 0.6): the confidence cap of a distrusted prediction
LOW_TRUST_CAP == 60

\* the values a probability of the raw classifier output is drawn from (percent)
ProbGrid == {0, 5, 20, 30, 35, 50, 60, 65, 70, 75, 95, 100}

\* the raw outputs of model.predict(...)[0]: one number per class
RawOutputs == [1..3 -> ProbGrid]

\* validate_signal_characteristics returned None
NoPattern == [present |-> FALSE]

\* the dictionaries validate_signal_characteristics can return
PatternSet ==
    [present : {TRUE}, base_freq : BOOLEAN, mod_25hz : BOOLEAN,
     sideband_100hz : BOOLEAN, phase_balance : BOOLEAN]

(***************************************************************************)
(* predict_from_file, lines 104-151: the fusion step as pure functions     *)
(***************************************************************************)
\* np.argmax(pred): the first index holding the maximum
ArgMax(p) ==
    CHOOSE i \in 1..3 :
        /\ \A j \in 1..3 : p[j] <= p[i]
        /\ \A j \in 1..(i - 1) : p[j] < p[i]

\* float(np.max(pred))
MaxOf(p) == p[ArgMax(p)]

\* class_probs = {CLASS_NAMES[i]: float(pred[i]) ...}
ClassProbs(p) == [c \in ClassSet |-> p[CHOOSE i \in 1..3 : CLASS_NAMES[i] = c]]

\* is_valid after the if/elif chain of lines 121-134
IsValid(predicted_class, patterns) ==
    CASE predicted_class = "sain" -> patterns.base_freq
      [] predicted_class = "desiquilibre" ->
            patterns.mod_25hz /\ patterns.phase_balance
      [] predicted_class = "cassure" -> patterns.sideband_100hz

\* line 137: "if not is_valid or confidence < CONFIDENCE_THRESHOLD"
Adjusts(predicted_class, confidence, patterns) ==
    ~IsValid(predicted_class, patterns) \/ confidence < CONFIDENCE_THRESHOLD

ForceHealthyBaseOnly(patterns) == patterns.base_freq

\* line 139: base frequency present and no fault indicator
ForceHealthy(patterns) ==
    patterns.base_freq /\ ~patterns.sideband_100hz /\ ~patterns.mod_25hz

OverrideKeepProbs(p) ==
    [prediction |-> "sain",
     confidence |-> Max(MaxOf(p), HEALTHY_FLOOR),
     class_probabilities |-> ClassProbs(p)]

\* lines 141-148: the forced healthy state
Override(p) ==
    LET confidence == Max(MaxOf(p), HEALTHY_FLOOR)
        class_probs == ClassProbs(p)
    IN [prediction |-> "sain",
        confidence |-> confidence,
        class_probabilities |->
            [c \in ClassSet |->
                CASE c = "sain" -> Max(confidence, class_probs["sain"])
                  [] c = "desiquilibre" -> Min(FAULT_CEILING, class_probs["desiquilibre"])
                  [] c = "cassure" -> Min(FAULT_CEILING, class_probs["cassure"])]]

LowTrustUncapped(p) ==
    [prediction |-> CLASS_NAMES[ArgMax(p)],
     confidence |-> MaxOf(p),
     class_probabilities |-> ClassProbs(p)]

LowTrustFloor(p) ==
    [prediction |-> CLASS_NAMES[ArgMax(p)],
     confidence |-> Max(MaxOf(p), LOW_TRUST_CAP),
     class_probabilities |-> ClassProbs(p)]

\* lines 149-151: keep the model's prediction with lower confidence
LowTrust(p) ==
    [prediction |-> CLASS_NAMES[ArgMax(p)],
     confidence |-> Min(MaxOf(p), LOW_TRUST_CAP),
     class_probabilities |-> ClassProbs(p)]

\* lines 105-110: the raw prediction
Raw(p) ==
    [prediction |-> CLASS_NAMES[ArgMax(p)],
     confidence |-> MaxOf(p),
     class_probabilities |-> ClassProbs(p)]

FuseAlwaysAdjust(p, patterns) ==
    IF ~patterns.present THEN Raw(p)
    ELSE IF ForceHealthy(patterns) THEN Override(p)
    ELSE LowTrust(p)

FuseIgnoreNone(p, patterns) ==
    IF ~patterns.present THEN LowTrust(p)
    ELSE IF ~Adjusts(CLASS_NAMES[ArgMax(p)], MaxOf(p), patterns) THEN Raw(p)
    ELSE IF ForceHealthy(patterns) THEN Override(p)
    ELSE LowTrust(p)

\* lines 104-151: label, confidence and class probabilities after fusion
Fuse(p, patterns) ==
    IF ~patterns.present THEN Raw(p)
    ELSE IF ~Adjusts(CLASS_NAMES[ArgMax(p)], MaxOf(p), patterns) THEN Raw(p)
    ELSE IF ForceHealthy(patterns) THEN Override(p)
    ELSE LowTrust(p)

(***************************************************************************)
(* The decoded container: what scipy.io.loadmat(struct_as_record=False,    *)
(* squeeze_me=True) hands to the parsers.                                  *)
(*   essais_key : name of the top-level entry starting with 'essais'       *)
(*                ("" when the file holds none)                            *)
(*   hasY, Y    : the record array essais.Y, one entry per record          *)
(*   attrs      : numeric fields of the essais structure named like a      *)
(*                required channel                                         *)
(*   flat       : top-level entries named like a required channel          *)
(* A Name is the sequence of its slash-delimited segments; a segment keeps *)
(* whether it is written inside quote characters. A datum is its identity  *)
(* (tag) and its shape after squeeze_me; the empty shape is a scalar,      *)
(* which loadmat returns as a Python number, not an ndarray.               *)
(***************************************************************************)
\* utils.py line 5, predictClass.py line 236
REQUIRED_SIGNALS == <<"i1", "i2", "i3", "v1", "v2", "v3", "vn", "w_m", "vibrad">>

RequiredSet == {REQUIRED_SIGNALS[i] : i \in 1..Len(REQUIRED_SIGNALS)}

\* the number of samples of a channel (utils.py line 87)
SAMPLES == 50001

\* index of a required name in the canonical order
IndexOf(n) == CHOOSE i \in 1..Len(REQUIRED_SIGNALS) : REQUIRED_SIGNALS[i] = n

EmptyMap == [n \in {} |-> 0]

Seg(text, quoted) == [text |-> text, quoted |-> quoted]

Datum(src, name, fault, attempt, shape) ==
    [src |-> src, name |-> name, fault |-> fault, attempt |-> attempt, shape |-> shape]

\* isinstance(data, np.ndarray): squeeze_me turns a 1x1 array into a scalar
IsNdarray(d) == d.shape # <<>>

\* len(signal): the first dimension
LenOf(d) == d.shape[1]

EmptyContainer ==
    [essais_key |-> "", hasY |-> FALSE, Y |-> <<>>, attrs |-> EmptyMap, flat |-> EmptyMap]

(***************************************************************************)
(* utils.py: convert_mat_to_npz                                            *)
(***************************************************************************)
\* lines 19-25: a key starting with 'essais' exists
HasEssaisKey(c) == c.essais_key # ""

\* for entry in Y (line 48): a single record is squeezed to one mat_struct,
\* which is not iterable
YIterable(c) == Len(c.Y) # 1

\* lines 46-56: every record with a Data field is stored under the required
\* name of its position in Y
FromRecords(c) ==
    LET idxs == {i \in 1..Len(c.Y) : c.Y[i].hasData /\ i <= Len(REQUIRED_SIGNALS)}
    IN [n \in {REQUIRED_SIGNALS[i] : i \in idxs} |-> c.Y[IndexOf(n)].Data]

\* lines 59-64: direct attributes of the essais structure
FromAttrs(c) == [n \in (DOMAIN c.attrs) \cap RequiredSet |-> c.attrs[n]]

\* lines 67-75: top-level entries that are arrays
FromFlat(c) ==
    [n \in {m \in (DOMAIN c.flat) \cap RequiredSet : IsNdarray(c.flat[m])} |-> c.flat[n]]

\* lines 17-75: the channel map 'signals' when no statement raises
ExtractChannels(c) ==
    LET s1 == IF HasEssaisKey(c) /\ c.hasY THEN FromRecords(c) ELSE EmptyMap
        s2 == IF HasEssaisKey(c) /\ DOMAIN s1 = {} THEN FromAttrs(c) ELSE s1
    IN IF DOMAIN s2 = {} THEN FromFlat(c) ELSE s2

MissingFirstOnly(signals) ==
    LET all == SelectSeq(REQUIRED_SIGNALS, LAMBDA n : n \notin DOMAIN signals)
    IN IF all = <<>> THEN <<>> ELSE <<Head(all)>>

\* line 81: missing = [sig for sig in REQUIRED_SIGNALS if sig not in signals]
Missing(signals) == SelectSeq(REQUIRED_SIGNALS, LAMBDA n : n \notin DOMAIN signals)

\* lines 86-88: the first channel, in insertion order, whose len() raises or
\* differs from 50001; 0 when every channel passes
FirstBadLength(signals) ==
    LET bad == {i \in 1..Len(REQUIRED_SIGNALS) :
                  /\ REQUIRED_SIGNALS[i] \in DOMAIN signals
                  /\ \/ ~IsNdarray(signals[REQUIRED_SIGNALS[i]])
                     \/ LenOf(signals[REQUIRED_SIGNALS[i]]) # SAMPLES}
    IN IF bad = {} THEN 0 ELSE CHOOSE i \in bad : \A j \in bad : i <= j

\* line 91: np.stack needs every array to have the same shape
Stackable(signals) ==
    \A n, m \in DOMAIN signals : signals[n].shape = signals[m].shape

\* lines 80-99: validation, stacking and the returned tensor's shape
Assemble(signals) ==
    IF Missing(signals) # <<>>
    THEN [status |-> "error", stage |-> "validate", kind |-> "missing",
          missing |-> Missing(signals), signals |-> signals]
    ELSE LET b == FirstBadLength(signals)
         IN IF b # 0 /\ ~IsNdarray(signals[REQUIRED_SIGNALS[b]])
            THEN [status |-> "error", stage |-> "validate", kind |-> "unsized",
                  name |-> REQUIRED_SIGNALS[b], signals |-> signals]
            ELSE IF b # 0
            THEN [status |-> "error", stage |-> "validate", kind |-> "length",
                  name |-> REQUIRED_SIGNALS[b],
                  length |-> LenOf(signals[REQUIRED_SIGNALS[b]]), signals |-> signals]
            ELSE IF ~Stackable(signals)
            THEN [status |-> "error", stage |-> "validate", kind |-> "stack",
                  signals |-> signals]
            ELSE [status |-> "ok", stage |-> "done", signals |-> signals,
                  shape |-> <<Len(REQUIRED_SIGNALS)>> \o signals["i1"].shape]

\* lines 7-108: the whole function; every exception is re-raised by the
\* handler of lines 101-108 as "Error converting mat file: ..."
ConvertMatToNpz(c) ==
    IF HasEssaisKey(c) /\ c.hasY /\ ~YIterable(c)
    THEN [status |-> "error", stage |-> "parse", kind |-> "not_iterable",
          signals |-> EmptyMap]
    ELSE Assemble(ExtractChannels(c))

(***************************************************************************)
(* predictClass.py: extract_signals_from_mat                               *)
(***************************************************************************)
\* line 248: str(Name).split('/')[-1].strip() is the last segment as written,
\* quote characters included
LastSegment(entry) == entry.Name[Len(entry.Name)]

\* line 249: a segment written inside quotes equals no expected name
InExpected(seg) == ~seg.quoted /\ seg.text \in RequiredSet

\* lines 246-256: one pass over Y; st is [found_names, by_name]
RECURSIVE ScanRecords(_, _, _)
ScanRecords(Y, i, st) ==
    IF i > Len(Y) THEN st
    ELSE LET e == Y[i]
             keep == /\ e.hasName /\ e.hasData
                     /\ InExpected(LastSegment(e))
                     /\ IsNdarray(e.Data)
             name == LastSegment(e).text
         IN ScanRecords(Y, i + 1,
                IF keep
                THEN [found_names |-> Append(st.found_names, name),
                      by_name |-> [n \in (DOMAIN st.by_name) \cup {name} |->
                                      IF n = name THEN e.Data ELSE st.by_name[n]]]
                ELSE st)

\* lines 240-258: the dSPACE format, under the key 'essais1' only
ExtractStructured(c) ==
    IF c.essais_key = "essais1" /\ c.hasY /\ Len(c.Y) # 1
    THEN ScanRecords(c.Y, 1, [found_names |-> <<>>, by_name |-> EmptyMap])
    ELSE [found_names |-> <<>>, by_name |-> EmptyMap]

\* lines 261-271: the direct format for every name not found yet
ExtractDirect(c, st) ==
    IF Len(st.found_names) < Len(REQUIRED_SIGNALS)
    THEN LET add == {n \in (DOMAIN c.flat) \cap RequiredSet :
                       /\ n \notin DOMAIN st.by_name
                       /\ IsNdarray(c.flat[n])
                       /\ c.flat[n].shape = <<SAMPLES>>}
         IN [n \in (DOMAIN st.by_name) \cup add |->
                IF n \in DOMAIN st.by_name THEN st.by_name[n] ELSE c.flat[n]]
    ELSE st.by_name

\* lines 219-300: the whole function
ExtractSignalsFromMat(c) ==
    LET signals == ExtractDirect(c, ExtractStructured(c))
    IN IF DOMAIN signals = {}
       THEN [status |-> "error", kind |-> "none_found", signals |-> signals]
       ELSE IF RequiredSet \ DOMAIN signals # {}
       THEN [status |-> "error", kind |-> "missing",
             missing |-> RequiredSet \ DOMAIN signals, signals |-> signals]
       ELSE IF ~Stackable(signals)
       THEN [status |-> "error", kind |-> "stack", signals |-> signals]
       ELSE [status |-> "ok", signals |-> signals,
             shape |-> <<Len(REQUIRED_SIGNALS)>> \o signals["i1"].shape]

(***************************************************************************)
(* predictClass.py: validate_signal_characteristics, lines 30-38           *)
(*                                                                         *)
(* The magnitude spectrum of channel i1 is given on a few bins of the      *)
(* non-negative half; every other bin of that half has magnitude 0, and    *)
(* bin N - k mirrors bin k (the signal is real). Mean and standard         *)
(* deviation are taken over all N_FFT bins, as np.mean and np.std do.      *)
(***************************************************************************)
\* sample_rate = 50001 (line 30)
SAMPLE_RATE == 50001

\* len(i1): the number of FFT bins
N_FFT == 50001

\* the bins of the non-negative half that can carry energy
CandBins == {0, 20, 25, 48, 50, 75, 96, 100, 150}

\* the magnitudes such a bin can have
MagValues == {0, 1, 100}

Spectra == [CandBins -> MagValues]

\* np.fft.fftfreq(n, 1/sample_rate)[k] for a bin k of the non-negative half;
\* bin N_FFT - k has the frequency -BinFreq(k)
BinFreq(k) == (k * SAMPLE_RATE) \div N_FFT

RECURSIVE SumOver(_, _)
SumOver(f, S) ==
    IF S = {} THEN 0
    ELSE LET x == CHOOSE y \in S : TRUE IN f[x] + SumOver(f, S \ {x})

\* sum of all N_FFT magnitudes and of their squares
TotalMag(sp) == sp[0] + 2 * SumOver(sp, CandBins \ {0})

TotalSq(sp) == sp[0] * sp[0] + 2 * SumOver([k \in CandBins |-> sp[k] * sp[k]], CandBins \ {0})

\* line 36-37: m > np.mean(magnitudes) + 2*np.std(magnitudes). With S and Q
\* the sums above and N = N_FFT this is  N*m - S > 0  and
\* (N*m - S)^2 > 4*(N*Q - S^2), i.e.  N*L + 5*S^2 > 0  for
\* L = N*m^2 - 2*m*S - 4*Q; the last form is evaluated without leaving the
\* 32-bit integers.
Exceeds(sp, m) ==
    LET S == TotalMag(sp)
        Q == TotalSq(sp)
        L == N_FFT * m * m - 2 * m * S - 4 * Q
    IN /\ N_FFT * m - S > 0
       /\ IF L >= 0 THEN (L > 0 \/ S > 0)
          ELSE (S > 0 /\ (0 - L) <= (5 * S * S - 1) \div N_FFT)

\* the bins of the non-negative half selected by the mask of line 37
DominantBins(sp) == {k \in CandBins : Exceeds(sp, sp[k])}

RECURSIVE Ascending(_)
Ascending(S) ==
    IF S = {} THEN <<>>
    ELSE LET x == CHOOSE y \in S : \A z \in S : y <= z
         IN <<x>> \o Ascending(S \ {x})

Reverse(q) == [i \in 1..Len(q) |-> q[Len(q) + 1 - i]]

\* line 37: freqs[magnitudes > threshold], in index order: bin 0, the
\* positive bins upwards, then the mirrored bins N-k upwards (k downwards)
MaskedFreqs(sp) ==
    LET pos == Ascending(DominantBins(sp))
        mirrored == Reverse(Ascending(DominantBins(sp) \ {0}))
    IN [i \in 1..Len(pos) |-> BinFreq(pos[i])]
       \o [i \in 1..Len(mirrored) |-> 0 - BinFreq(mirrored[i])]

Abs(x) == IF x < 0 THEN 0 - x ELSE x

\* line 38: np.abs(dominant_freqs[:len(dominant_freqs)//2])
DominantFreqs(sp) ==
    LET d == MaskedFreqs(sp)
        half == SubSeq(d, 1, Len(d) \div 2)
    IN [i \in 1..Len(half) |-> Abs(half[i])]

\* the numbers of lines 45-47 (also CHARACTERISTIC_FREQS, lines 17-21)
BASE_FREQ == 50

BASE_TOLERANCE == 2

MOD_FREQ == 25

SIDEBAND_FREQ == 100

FAULT_TOLERANCE == 5

\* any(abs(f - centre) < tolerance for f in dominant_freqs)
AnyNear(freqs, centre, tolerance) ==
    \E i \in 1..Len(freqs) : Abs(freqs[i] - centre) < tolerance

PatternsWideBase(freqs, balanced) ==
    [present |-> TRUE,
     base_freq |-> AnyNear(freqs, BASE_FREQ, FAULT_TOLERANCE),
     mod_25hz |-> AnyNear(freqs, MOD_FREQ, FAULT_TOLERANCE),
     sideband_100hz |-> AnyNear(freqs, SIDEBAND_FREQ, FAULT_TOLERANCE),
     phase_balance |-> balanced]

\* lines 44-49: the dictionary of the four flags; 'balanced' is the outcome
\* of the comparison of line 48 on the three current channels
Patterns(freqs, balanced) ==
    [present |-> TRUE,
     base_freq |-> AnyNear(freqs, BASE_FREQ, BASE_TOLERANCE),
     mod_25hz |-> AnyNear(freqs, MOD_FREQ, FAULT_TOLERANCE),
     sideband_100hz |-> AnyNear(freqs, SIDEBAND_FREQ, FAULT_TOLERANCE),
     phase_balance |-> balanced]

NotAnalysed == [done |-> FALSE, freqs |-> <<>>, patterns |-> NoPattern]

\* lines 31-55 on the spectrum of channel i1
Analyse ==
    /\ ~dominant.done
    /\ \E balanced \in BOOLEAN :
          dominant' = [done |-> TRUE, freqs |-> DominantFreqs(spectrum),
                       patterns |-> Patterns(DominantFreqs(spectrum), balanced)]
    /\ UNCHANGED spectrum

(***************************************************************************)
(* predict_from_file as a process: validate, predict, fuse, return         *)
(***************************************************************************)
NoResult == [status |-> "none"]

NoPred == <<0, 0, 0>>

\* line 91: validate_signal_characteristics(signals) returns the four flags
\* (lines 44-55); the tensor's spectral content is an input of the request
Validate ==
    /\ pc = "validate"
    /\ \E p \in PatternSet : signal_patterns' = p
    /\ pc' = "predict"
    /\ UNCHANGED <<pred, result>>

\* line 91 when anything inside the validator's try block raises: the handler
\* of lines 57-59 prints the error and returns None
ValidateRaises ==
    /\ pc = "validate"
    /\ signal_patterns' = NoPattern
    /\ pc' = "predict"
    /\ UNCHANGED <<pred, result>>

\* line 99: pred = model.predict(sample, verbose=0)[0]
Predict ==
    /\ pc = "predict"
    /\ \E p \in RawOutputs : pred' = p
    /\ pc' = "fuse"
    /\ UNCHANGED <<signal_patterns, result>>

\* line 99 raising: the outer handler of lines 190-195 returns an error result
PredictFails ==
    /\ pc = "predict"
    /\ result' = [status |-> "error", error |-> "model.predict"]
    /\ pc' = "done"
    /\ UNCHANGED <<signal_patterns, pred>>

\* lines 104-180: fusion and the returned dictionary
FuseAndReturn ==
    /\ pc = "fuse"
    /\ LET f == Fuse(pred, signal_patterns)
       IN result' = [status |-> "success",
                     prediction |-> f.prediction,
                     confidence |-> f.confidence,
                     class_probabilities |-> f.class_probabilities,
                     validation_patterns |-> signal_patterns]
    /\ pc' = "done"
    /\ UNCHANGED <<signal_patterns, pred>>

(***************************************************************************)
(* The containers the parsers are run on                                   *)
(***************************************************************************)
\* the largest number of required names a flat container leaves out
MaxMissing == 2

\* the largest number of records of other channels in a record array
MaxExtra == 1

\* shapes a top-level entry or a Data field can have after squeeze_me
OddShapes == {<<>>, <<0>>, <<SAMPLES - 1>>, <<SAMPLES + 1>>, <<SAMPLES, 2>>}

BaseShapes == {<<SAMPLES>>, <<SAMPLES, 2>>}

\* flat layout: the names in 'present', all of shape 'base' but the entry
\* 'odd' (0: none), which has shape 'oddShape'
FlatEntries(present, base, odd, oddShape) ==
    [n \in present |->
        Datum("flat", n, "", 0, IF odd # 0 /\ REQUIRED_SIGNALS[odd] = n THEN oddShape ELSE base)]

FlatContainers ==
    {[essais_key |-> "", hasY |-> FALSE, Y |-> <<>>, attrs |-> EmptyMap,
      flat |-> FlatEntries(RequiredSet \ absent, base, odd, oddShape)] :
        absent \in {a \in SUBSET RequiredSet : Cardinality(a) <= MaxMissing},
        base \in BaseShapes,
        odd \in 0..Len(REQUIRED_SIGNALS),
        oddShape \in OddShapes}

\* saveMat.py line 73, generate_signal_mat.py line 131: "Model Root"/"<name>"/"Out1"
PathName(n) == <<Seg("Model Root", TRUE), Seg(n, TRUE), Seg("Out1", TRUE)>>

\* machine.py line 214: just the signal name without any path
PlainName(n) == <<Seg(n, FALSE)>>

RecordOf(n, style, shape) ==
    [hasName |-> TRUE,
     Name |-> IF style = "path" THEN PathName(n) ELSE PlainName(n),
     hasData |-> TRUE,
     Data |-> Datum("Y", n, "", 0, shape)]

Swap(seq, i, j) ==
    [k \in 1..Len(seq) |-> IF k = i THEN seq[j] ELSE IF k = j THEN seq[i] ELSE seq[k]]

\* the orders a record array lists the nine channels in
Orders ==
    {Swap(REQUIRED_SIGNALS, i, j) : i \in 1..Len(REQUIRED_SIGNALS), j \in 1..Len(REQUIRED_SIGNALS)}

\* a record array: the channels of 'order', with 'extra' records of another
\* channel in front, cut to its first k records
RecordArray(order, style, extra, k, shape) ==
    LET full == [i \in 1..extra |-> RecordOf("temperature", style, shape)]
                \o [i \in 1..Len(order) |-> RecordOf(order[i], style, shape)]
    IN SubSeq(full, 1, Min(k, Len(full)))

\* the names the records of Y carry (second-to-last segment, or the only one)
NamesIn(Y) ==
    {Y[i].Name[IF Len(Y[i].Name) >= 2 THEN Len(Y[i].Name) - 1 ELSE 1].text : i \in 1..Len(Y)}

\* structured layout under the key 'key'; the flat entries beside it are
\* none, the required names the records do not carry, or all nine
StructuredContainers ==
    {[essais_key |-> key, hasY |-> TRUE, Y |-> Y, attrs |-> EmptyMap,
      flat |-> FlatEntries(
                  CASE fl = "none" -> {}
                    [] fl = "rest" -> RequiredSet \ NamesIn(Y)
                    [] fl = "all" -> RequiredSet,
                  <<SAMPLES>>, 0, <<>>)] :
        key \in {"essais1", "essais7"},
        fl \in {"none", "rest", "all"},
        Y \in {RecordArray(order, style, extra, k, shape) :
                 order \in Orders,
                 style \in {"path", "plain"},
                 extra \in 0..MaxExtra,
                 k \in 0..(Len(REQUIRED_SIGNALS) + MaxExtra),
                 shape \in BaseShapes}}

\* an essais structure without Y whose direct attributes are the channels
AttrContainers ==
    {[essais_key |-> "essais1", hasY |-> hasY, Y |-> <<>>,
      attrs |-> [n \in RequiredSet \ absent |-> Datum("attr", n, "", 0, <<SAMPLES>>)],
      flat |-> FlatEntries(IF fl THEN RequiredSet ELSE {}, <<SAMPLES>>, 0, <<>>)] :
        hasY \in BOOLEAN,
        fl \in BOOLEAN,
        absent \in {a \in SUBSET RequiredSet : Cardinality(a) <= 1}}

Containers == FlatContainers \cup StructuredContainers \cup AttrContainers

NotRun == [status |-> "none"]

\* utils.convert_mat_to_npz(mat_file_path) on the container
Convert ==
    /\ conv = NotRun
    /\ conv' = ConvertMatToNpz(container)
    /\ UNCHANGED <<container, extr>>

\* predictClass.extract_signals_from_mat(file_data) on the container
Extract ==
    /\ extr = NotRun
    /\ extr' = ExtractSignalsFromMat(container)
    /\ UNCHANGED <<container, conv>>

(***************************************************************************)
(* machine.py: SignalGenerator and run_signal_generator                    *)
(***************************************************************************)
\* fault_types = [None, "cassure", "desiquilibre"] (line 263); None is "none"
FAULT_TYPES == <<"none", "cassure", "desiquilibre">>

\* max_attempts = 3 (line 137)
MAX_ATTEMPTS == 3

\* the number of files the generator loop writes before the model stops it
MaxRounds == 6

(***************************************************************************)
(* The waveforms of generate_current_signal. A waveform is a list of       *)
(* sinusoids s*sin(2*pi*f*t) + c*cos(2*pi*f*t); amplitude 1.0 is 100. The  *)
(* additive noise of line 41 is a list of sinusoids too (any real vector   *)
(* is one); the draws below are: no component large enough to count (the   *)
(* usual case at noise_level 0.05) or one component of amplitude 0.01 at   *)
(* the 96 Hz or the 100 Hz bin.                                            *)
(***************************************************************************)
Term(freq, s, c) == [freq |-> freq, sin |-> s, cos |-> c]

\* base_signal *= (1 + depth*sin(2*pi*fm*t)), depth in percent:
\* sin(a)sin(b) = (cos(a-b) - cos(a+b))/2, cos(a)sin(b) = (sin(a+b) - sin(a-b))/2
Modulate(terms, depth, fm) ==
    terms
    \o [i \in 1..Len(terms) |->
          Term(terms[i].freq - fm, 0 - (terms[i].cos * depth) \div 200,
               (terms[i].sin * depth) \div 200)]
    \o [i \in 1..Len(terms) |->
          Term(terms[i].freq + fm, (terms[i].cos * depth) \div 200,
               0 - (terms[i].sin * depth) \div 200)]

\* machine.py lines 21-38: base_signal of generate_current_signal(amplitude=1.0)
CurrentTerms(fault) ==
    LET base == <<Term(BASE_FREQ, 100, 0)>>
        fault_freq == BASE_FREQ * 2
    IN CASE fault = "cassure" ->
              base \o <<Term(BASE_FREQ + fault_freq, 40, 0),
                        Term(BASE_FREQ - fault_freq, 40, 0)>>
         [] fault = "desiquilibre" ->
              Modulate(base, 60, MOD_FREQ)
              \o <<Term(2 * MOD_FREQ, 20, 0), Term(3 * MOD_FREQ, 10, 0)>>
         [] OTHER -> base

\* machine.py lines 46, 71-85: base_signal of generate_voltage_signal (in
\* percent of its amplitude) and of generate_vibration_signal(amplitude=1.0)
VoltageTerms == <<Term(BASE_FREQ, 100, 0)>>

VibrationTerms(fault) ==
    LET base == <<Term(BASE_FREQ, 100, 0)>>
        fault_freq == BASE_FREQ * 2
    IN CASE fault = "cassure" ->
              base \o <<Term(fault_freq, 70, 0), Term((fault_freq * 3) \div 2, 30, 0)>>
         [] fault = "desiquilibre" ->
              base \o <<Term(MOD_FREQ, 120, 0), Term(MOD_FREQ * 2, 40, 0),
                        Term(MOD_FREQ * 3, 20, 0)>>
         [] OTHER -> base

\* machine.py lines 52-64: base_signal of generate_speed_signal, in rpm
SpeedTerms(fault) ==
    LET base == <<Term(0, 0, 1500)>>
    IN CASE fault = "desiquilibre" ->
              base \o <<Term(MOD_FREQ, 150, 0), Term(2 * MOD_FREQ, 50, 0)>>
         [] fault = "cassure" -> base \o <<Term(BASE_FREQ * 2, 20, 0)>>
         [] OTHER -> base

\* machine.py lines 140-156: which generator makes which channel
ChannelTerms(name, fault) ==
    CASE name \in {"i1", "i2", "i3"} -> CurrentTerms(fault)
      [] name \in {"v1", "v2", "v3", "vn"} -> VoltageTerms
      [] name = "w_m" -> SpeedTerms(fault)
      [] OTHER -> VibrationTerms(fault)

\* the draws of noise_level * np.random.randn(len(self.t)) for channel i1
NoiseDraws == {<<>>, <<Term(96, 1, 0)>>, <<Term(100, 1, 0)>>}

ISqrt(n) == CHOOSE r \in 0..n : r * r <= n /\ n < (r + 1) * (r + 1)

\* the sums of the sine and of the cosine amplitudes of the terms of frequency f
SumSin(terms, f) ==
    SumOver([i \in 1..Len(terms) |-> IF terms[i].freq = f THEN terms[i].sin ELSE 0],
            1..Len(terms))

SumCos(terms, f) ==
    SumOver([i \in 1..Len(terms) |-> IF terms[i].freq = f THEN terms[i].cos ELSE 0],
            1..Len(terms))

\* np.abs(np.fft.fft(x))[k], in units of N/2 per amplitude 0.01:
\* sin(-a) = -sin(a) and cos(-a) = cos(a) fold the negative frequencies; a
\* constant counts twice in bin 0
BinMagnitude(terms, k) ==
    LET sn == SumSin(terms, k) - SumSin(terms, 0 - k)
        cs == SumCos(terms, k) + SumCos(terms, 0 - k)
    IN IF k = 0 THEN 2 * Abs(SumCos(terms, 0))
       ELSE IF cs = 0 THEN Abs(sn)
       ELSE IF sn = 0 THEN Abs(cs)
       ELSE ISqrt(sn * sn + cs * cs)

FaultSet == {FAULT_TYPES[i] : i \in 1..Len(FAULT_TYPES)}

\* the magnitude spectrum of every channel the generator can make, with the
\* noise draw added
GeneratedSpectra ==
    [name \in RequiredSet, fault \in FaultSet, noise \in NoiseDraws |->
        [k \in CandBins |-> BinMagnitude(ChannelTerms(name, fault) \o noise, k)]]

\* np.abs(np.fft.fft(d)) of a generated channel d
SpectrumOf(d, noise) == GeneratedSpectra[d.name, d.fault, noise]

\* utils.py lines 95-96: (x - mean) / (std + 1e-8) removes the constant and
\* scales every bin by the same positive factor, which the comparison of a
\* bin with mean + 2*std does not see
NormalizedSpectrum(sp) == [sp EXCEPT ![0] = 0]

\* machine.py lines 98-102: the bins 1 .. N/2 - 1 above mean + 2*std, DC
\* excluded
VerifyDominant(sp) ==
    LET bins == Ascending(DominantBins(sp) \ {0})
    IN [i \in 1..Len(bins) |-> Abs(BinFreq(bins[i]))]

\* machine.py lines 107-129: the branch of the requested fault type; the
\* loop passes None ("none") for the healthy state, which no branch tests
VerifySignalCharacteristics(sp, fault_type) ==
    LET dominant_freqs == VerifyDominant(sp)
    IN CASE fault_type = "sain" -> AnyNear(dominant_freqs, BASE_FREQ, 2)
         [] fault_type = "cassure" -> AnyNear(dominant_freqs, BASE_FREQ * 2, 2)
         [] fault_type = "desiquilibre" -> AnyNear(dominant_freqs, 25, 2)
         [] OTHER -> TRUE

\* lines 139-162: the nine channels of one attempt, each of sample_rate
\* samples (self.t has sample_rate points)
Synthesize(fault, attempt) ==
    [n \in RequiredSet |-> Datum("gen", n, fault, attempt, <<SAMPLE_RATE>>)]

\* scipy.io.savemat writes a one-dimensional array as a 1 x n row
MatShape(shape) == IF Len(shape) = 1 THEN <<1>> \o shape ELSE shape

\* squeeze_me=True drops every dimension of size 1
Squeeze(shape) == SelectSeq(shape, LAMBDA d : d # 1)

SavedRecordsReversed(signals) ==
    [i \in 1..Len(REQUIRED_SIGNALS) |->
        LET name == REQUIRED_SIGNALS[Len(REQUIRED_SIGNALS) + 1 - i]
        IN [hasName |-> TRUE, Name |-> PlainName(name), hasData |-> TRUE,
            Data |-> [signals[name] EXCEPT !.shape = MatShape(@)]]]

\* lines 196-221: one record per required signal, in the order of
\* required_signals, named by the bare signal name
SavedRecords(signals) ==
    [i \in 1..Len(REQUIRED_SIGNALS) |->
        LET name == REQUIRED_SIGNALS[i]
        IN [hasName |-> TRUE, Name |-> PlainName(name), hasData |-> TRUE,
            Data |-> [signals[name] EXCEPT !.shape = MatShape(@)]]]

\* lines 223-231: the file holds the single variable essais1 with the fields
\* Y, X and Time
SavedFile(signals) ==
    [essais_key |-> "essais1", hasY |-> TRUE, Y |-> SavedRecords(signals),
     attrs |-> EmptyMap, flat |-> EmptyMap]

\* scipy.io.loadmat(path, struct_as_record=False, squeeze_me=True) of a file
LoadMat(file) ==
    [file EXCEPT !.Y = [i \in 1..Len(file.Y) |->
                           [file.Y[i] EXCEPT !.Data.shape = Squeeze(@)]]]

\* lines 191-193 and 202-203: save_signals rejects the channel set
SaveRejects(signals) ==
    \/ RequiredSet \ DOMAIN signals # {}
    \/ \E n \in RequiredSet : signals[n].shape # <<SAMPLE_RATE>>

NoSignals == EmptyMap

\* .mat files a previous run left in generated_signals (named by their time)
OldFiles == {0 - 2, 0 - 1}

\* lines 270-276: the loop picks the next fault type and calls generate_signals
LoopStep ==
    /\ gen.pc = "loop"
    /\ gen.round < MaxRounds
    /\ gen' = [gen EXCEPT !.pc = "generate",
                          !.current_fault = FAULT_TYPES[gen.fault_index + 1],
                          !.fault_index = (gen.fault_index + 1) % Len(FAULT_TYPES),
                          !.attempt = 0,
                          !.warned = FALSE,
                          !.round = gen.round + 1]
    /\ UNCHANGED <<container, conv, spectrum, dominant>>

\* lines 138-162: one attempt of generate_signals
Generate ==
    /\ gen.pc = "generate"
    /\ gen.attempt < MAX_ATTEMPTS
    /\ \E noise \in NoiseDraws :
          gen' = [gen EXCEPT !.pc = "verify",
                             !.attempt = gen.attempt + 1,
                             !.noise = noise,
                             !.signals = Synthesize(gen.current_fault, gen.attempt + 1)]
    /\ UNCHANGED <<container, conv, spectrum, dominant>>

\* verify_signal_characteristics(signals, fault_type) for every generated
\* signals['i1'] and every fault_type
GeneratedVerdicts ==
    [fault \in FaultSet, noise \in NoiseDraws, fault_type \in FaultSet \cup {"sain"} |->
        VerifySignalCharacteristics(GeneratedSpectra["i1", fault, noise], fault_type)]

\* line 165: verify_signal_characteristics(signals, fault_type) on this attempt
Verified == GeneratedVerdicts[gen.signals["i1"].fault, gen.noise, gen.current_fault]

VerifyAcceptsThenRetries ==
    /\ gen.pc = "verify"
    /\ Verified
    /\ gen' = [gen EXCEPT !.pc = IF gen.attempt < MAX_ATTEMPTS THEN "generate" ELSE "save",
                          !.warned = FALSE]
    /\ UNCHANGED <<container, conv, spectrum, dominant>>

\* lines 165-166: verify_signal_characteristics returned True. With
\* fault_type None no branch of lines 107-126 is taken, so it always does.
VerifyAccepts ==
    /\ gen.pc = "verify"
    /\ Verified
    /\ gen' = [gen EXCEPT !.pc = "save", !.warned = FALSE]
    /\ UNCHANGED <<container, conv, spectrum, dominant>>

\* lines 167-171: the signature was not found (the noise and the waveform
\* decide); retry, or fall back to the last attempt after the third with
\* the warning of line 170
VerifyRejects ==
    /\ gen.pc = "verify"
    /\ ~Verified
    /\ gen' = [gen EXCEPT !.pc = IF gen.attempt < MAX_ATTEMPTS THEN "generate" ELSE "save",
                          !.warned = ~(gen.attempt < MAX_ATTEMPTS)]
    /\ UNCHANGED <<container, conv, spectrum, dominant>>

\* lines 176-183: save_signals first deletes every .mat file of the directory
SaveDelete ==
    /\ gen.pc = "save"
    /\ gen' = [gen EXCEPT !.pc = "write", !.files = {}]
    /\ UNCHANGED <<container, conv, spectrum, dominant>>

\* lines 185-255: the checks pass and the new file is written
SaveWrite ==
    /\ gen.pc = "write"
    /\ ~SaveRejects(gen.signals)
    /\ gen' = [gen EXCEPT !.pc = "written", !.files = {gen.round}]
    /\ container' = LoadMat(SavedFile(gen.signals))
    /\ conv' = NotRun
    /\ spectrum' = [k \in CandBins |-> 0]
    /\ dominant' = NotAnalysed

\* the written file is read back by utils.convert_mat_to_npz (the polling
\* endpoint runs predict_from_file on the newest generated file)
ParseBack ==
    /\ gen.pc = "written"
    /\ conv' = ConvertMatToNpz(container)
    /\ gen' = [gen EXCEPT !.pc = IF conv'.status = "ok" THEN "parsed" ELSE "loop"]
    /\ UNCHANGED <<container, spectrum, dominant>>

\* predictClass.py line 91: the validator runs on row 0 of the normalized
\* tensor. Every row has standard deviation 1 after utils.py line 96, so
\* the comparison of line 48 holds.
ValidateParsed ==
    /\ gen.pc = "parsed"
    /\ LET sp == NormalizedSpectrum(SpectrumOf(conv.signals["i1"], gen.noise))
       IN /\ spectrum' = sp
          /\ dominant' = [done |-> TRUE, freqs |-> DominantFreqs(sp),
                          patterns |-> Patterns(DominantFreqs(sp), TRUE)]
    /\ gen' = [gen EXCEPT !.pc = "loop"]
    /\ UNCHANGED <<container, conv>>

(***************************************************************************)
(* utils.py lines 90-99 and predictClass.py line 48 on sample values.      *)
(* A row is a sequence of levels, each standing for SAMPLES / Len(levels)  *)
(* consecutive samples; the value of a sample is levels[i] * scale / den.  *)
(* A channel of the file has den = UNIT, so its samples are multiples of   *)
(* 1e-9; the rows used have an integral mean and standard deviation, which *)
(* keeps the arithmetic exact.                                             *)
(***************************************************************************)
\* the denominator of an input sample: values are in units of 1e-9
UNIT == 1000000000

\* the floor 1e-8 of utils.py line 96, in units of 1e-9
EPS == 10

\* the levels of a row of mean 0 and standard deviation 2
Ramp == <<-3, -2, -1, 0, 1, 2, 3>>

Row(scale, offset, slope) ==
    [scale |-> scale, den |-> UNIT,
     levels |-> [i \in 1..Len(Ramp) |-> offset + slope * Ramp[i]]]

\* the channels of the files: one constant channel, channels of standard
\* deviation 2e-9, 2e-8, 2e-6 and 0.004, and two of the size of a motor
\* current (0.1 and 0.2)
Rows ==
    {Row(1000000, 5, 0), Row(1, 0, 1), Row(1, 4, 10), Row(1000, 0, 1),
     Row(1000000, 0, 2), Row(1000000, 3, 50), Row(1000000, -20, 100)}

CurrentSet == {"i1", "i2", "i3"}

\* np.mean(row) over the levels
MeanLevel(row) ==
    SumOver(row.levels, 1..Len(row.levels)) \div Len(row.levels)

\* np.std(row) over the levels (population standard deviation)
StdLevel(row) ==
    LET m == MeanLevel(row)
        sq == [i \in 1..Len(row.levels) |-> (row.levels[i] - m) * (row.levels[i] - m)]
    IN ISqrt(SumOver(sq, 1..Len(row.levels)) \div Len(row.levels))

\* mean and standard deviation of a row as numerators over row.den
RowMean(row) == MeanLevel(row) * row.scale

RowStd(row) == StdLevel(row) * row.scale

NormalizeRowCoarseFloor(row) ==
    [scale |-> row.scale, den |-> RowStd(row) + 100 * EPS,
     levels |-> [i \in 1..Len(row.levels) |-> row.levels[i] - MeanLevel(row)]]

\* utils.py lines 95-96: (row - mean) / (std + 1e-8)
NormalizeRow(row) ==
    [scale |-> row.scale, den |-> RowStd(row) + EPS,
     levels |-> [i \in 1..Len(row.levels) |-> row.levels[i] - MeanLevel(row)]]

Pow10(n) == IF n = 0 THEN 1 ELSE IF n = 1 THEN 10 ELSE IF n = 2 THEN 100 ELSE IF n = 3 THEN 1000 ELSE 10000

\* the first n decimals of r / b for 0 <= r < b, by long division
RECURSIVE LongDiv(_, _, _)
LongDiv(r, b, n) ==
    IF n = 0 THEN 0
    ELSE ((r * 10) \div b) * Pow10(n - 1) + LongDiv((r * 10) % b, b, n - 1)

\* a / b in units of 1e-4, rounded down
Ratio(a, b) == (a \div b) * Pow10(4) + LongDiv(a % b, b, 4)

\* np.std(i) of predictClass.py line 48 for one row of the tensor, in 1e-4
StdValue(row) == Ratio(RowStd(row), row.den)

\* the bound 0.2 of predictClass.py line 48, in units of 1e-4
BALANCE_LIMIT == 2000

\* predictClass.py lines 27 and 48: np.std([np.std(i1), np.std(i2),
\* np.std(i3)]) < 0.2, compared as nine times the variances
PhaseBalance(tensor) ==
    LET s == [c \in CurrentSet |-> StdValue(tensor[c])]
        sq == [c \in CurrentSet |-> s[c] * s[c]]
        total == SumOver(s, CurrentSet)
    IN 3 * SumOver(sq, CurrentSet) - total * total < 9 * BALANCE_LIMIT * BALANCE_LIMIT

NoTensor == [c \in RequiredSet |-> Row(0, 0, 0)]

\* utils.py lines 95-96 on the stacked rows
Normalize ==
    /\ assembly.pc = "stacked"
    /\ assembly' = [assembly EXCEPT
                       !.pc = "normalized",
                       !.tensor = [c \in RequiredSet |-> NormalizeRow(assembly.signals[c])]]

\* predictClass.py lines 27-48 on the tensor convert_mat_to_npz returned
\* (line 77 of predict_from_file)
ValidateBalance ==
    /\ assembly.pc = "normalized"
    /\ assembly' = [assembly EXCEPT
                       !.pc = "validated",
                       !.phase_balance = PhaseBalance(assembly.tensor)]

(***************************************************************************)
(* app.py and predict_from_file as request handlers. The development       *)
(* server handles each request in a thread of its own, so the steps of two *)
(* handlers interleave. predict_from_file is position "stage" to "cleanup" *)
(* of a request.                                                           *)
(***************************************************************************)
\* the requests in flight
Calls == {1, 2}

\* the content of a .mat file: the container savemat wrote and the noise
\* draw of its channel i1, or bytes that loadmat cannot decode
MatBytes(mat, noise) == [decodable |-> TRUE, mat |-> mat, noise |-> noise]

Garbage == [decodable |-> FALSE, mat |-> EmptyContainer, noise |-> <<>>]

\* a file written by save_signals from the given attempt of generate_signals
Fixture(fault, attempt) == MatBytes(SavedFile(Synthesize(fault, attempt)), <<>>)

\* flat files: two required names left out, channel i2 one sample short, and
\* nine channels of two columns each
MissingTwo ==
    MatBytes([EmptyContainer EXCEPT
                 !.flat = FlatEntries(RequiredSet \ {"i2", "vibrad"}, <<SAMPLES>>, 0, <<>>)],
             <<>>)

WrongLength ==
    MatBytes([EmptyContainer EXCEPT
                 !.flat = FlatEntries(RequiredSet, <<SAMPLES>>, 2, <<SAMPLES - 1>>)],
             <<>>)

TwoColumns ==
    MatBytes([EmptyContainer EXCEPT
                 !.flat = FlatEntries(RequiredSet, <<SAMPLES, 2>>, 0, <<>>)],
             <<>>)

\* the files a client uploads
UploadedFiles ==
    {Fixture("none", 1), MissingTwo, WrongLength, TwoColumns, Garbage}

\* request.files['file'].filename of an accepted upload
Filenames == {"a.mat", "b.mat"}

\* the files generated_signals/ can hold, by creation time
GeneratedDirs ==
    UNION {[times -> {Fixture("cassure", 3), MissingTwo}] :
              times \in SUBSET {1, 2}}

\* uploads/temp_predict.mat (predictClass.py line 68)
NoFile == [exists |-> FALSE]

File(writer, bytes) == [exists |-> TRUE, writer |-> writer, bytes |-> bytes]

\* utils.py line 12 on a path: a missing file and undecodable bytes raise
\* inside the try block, anything else is parsed (lines 17-99)
ConvertFile(file) ==
    IF ~file.exists
    THEN [status |-> "error", stage |-> "parse", kind |-> "no_file", signals |-> EmptyMap]
    ELSE IF ~file.bytes.decodable
    THEN [status |-> "error", stage |-> "parse", kind |-> "undecodable", signals |-> EmptyMap]
    ELSE ConvertMatToNpz(LoadMat(file.bytes.mat))

MessageWithoutNames(c) == [raised |-> "convert_mat_to_npz", kind |-> c.kind, names |-> <<>>]

\* utils.py lines 83, 88 and 108, predictClass.py line 194: str(e) of the
\* exception; 'names' are the channel names its text holds
Message(c) ==
    [raised |-> "convert_mat_to_npz", kind |-> c.kind,
     names |-> CASE c.kind = "missing" -> c.missing
                 [] c.kind = "length" -> <<c.name>>
                 [] OTHER -> <<>>]

\* predictClass.py line 91 on the parsed tensor: rows that are not
\* one-dimensional make the mask of line 37 raise, which returns None
PatternsOfParsed(c, noise) ==
    IF c.shape # <<Len(REQUIRED_SIGNALS), SAMPLES>> THEN NoPattern
    ELSE LET sp == NormalizedSpectrum(SpectrumOf(c.signals["i1"], noise))
         IN Patterns(DominantFreqs(sp), TRUE)

\* the outputs of model.predict in this development (percent)
ServicePreds == {<<5, 95, 0>>, <<50, 30, 20>>}

\* predictClass.py lines 171-180
SuccessResult(p, patterns, signals) ==
    [status |-> "success",
     prediction |-> Fuse(p, patterns).prediction,
     confidence |-> Fuse(p, patterns).confidence,
     class_probabilities |-> Fuse(p, patterns).class_probabilities,
     validation_patterns |-> patterns,
     signals |-> signals]

\* predictClass.py lines 190-195
ErrorResult(message) == [status |-> "error", error |-> message]

Null == [null |-> TRUE]

NoResponse == [code |-> 0]

IdleCall ==
    [kind |-> "idle", pc |-> "idle", filename |-> "", saw_monitoring |-> FALSE,
     listed |-> {}, latest |-> 0, file_data |-> Garbage, read |-> NoFile,
     conv |-> NotRun, classified |-> FALSE, result |-> NoResult,
     response |-> NoResponse]

\* app.py lines 44-52: the three early returns of the upload endpoint
UploadRejected(r) ==
    /\ calls[r].pc = "idle"
    /\ \E why \in {"No file provided", "No file selected", "Only .mat files are supported"} :
          calls' = [calls EXCEPT ![r] =
                       [@ EXCEPT !.kind = "upload", !.pc = "done",
                                 !.response = [code |-> 400, body |-> [error |-> why]]]]
    /\ UNCHANGED <<is_monitoring, last_processed_file, fs>>

\* app.py lines 55-56: the upload is saved as uploads/<filename>
UploadSave(r) ==
    /\ calls[r].pc = "idle"
    /\ \E name \in Filenames, bytes \in UploadedFiles :
          /\ fs' = [fs EXCEPT !.uploads =
                       [n \in (DOMAIN fs.uploads) \cup {name} |->
                           IF n = name THEN bytes ELSE fs.uploads[n]]]
          /\ calls' = [calls EXCEPT ![r] =
                          [@ EXCEPT !.kind = "upload", !.pc = "read", !.filename = name]]
    /\ UNCHANGED <<is_monitoring, last_processed_file>>

\* app.py lines 59-99: the file is examined (errors are printed and dropped)
\* and read back
UploadRead(r) ==
    /\ calls[r].pc = "read"
    /\ calls' = [calls EXCEPT ![r] =
                    [@ EXCEPT !.pc = "stage", !.file_data = fs.uploads[calls[r].filename]]]
    /\ UNCHANGED <<is_monitoring, last_processed_file, fs>>

\* app.py lines 151-156: the polling endpoint reads the flag
PollCheck(r) ==
    /\ calls[r].pc = "idle"
    /\ calls' = [calls EXCEPT ![r] =
                    IF is_monitoring
                    THEN [@ EXCEPT !.kind = "poll", !.pc = "list", !.saw_monitoring = TRUE]
                    ELSE [@ EXCEPT !.kind = "poll", !.pc = "done",
                                   !.response =
                                       [code |-> 200,
                                        body |-> [status |-> "stopped", prediction |-> Null,
                                                  timestamp |-> Null]]]]
    /\ UNCHANGED <<is_monitoring, last_processed_file, fs>>

Oldest(times) == CHOOSE t \in times : \A u \in times : t <= u

\* max(files, key=os.path.getctime)
Latest(times) == CHOOSE t \in times : \A u \in times : u <= t

\* app.py lines 159-180: the directory is listed; without a file the answer
\* is 'waiting', otherwise the file of the largest creation time is read
PollList(r) ==
    /\ calls[r].pc = "list"
    /\ calls' = [calls EXCEPT ![r] =
                    IF DOMAIN fs.generated = {}
                    THEN [@ EXCEPT !.pc = "done",
                                   !.response =
                                       [code |-> 200,
                                        body |-> [status |-> "waiting", prediction |-> Null,
                                                  timestamp |-> Null]]]
                    ELSE [@ EXCEPT !.pc = "stage",
                                   !.latest = Latest(DOMAIN fs.generated),
                                   !.file_data = fs.generated[Latest(DOMAIN fs.generated)]]]
    /\ UNCHANGED <<is_monitoring, last_processed_file, fs>>

\* predictClass.py lines 68-73: file_data is written to uploads/temp_predict.mat
Stage(r) ==
    /\ calls[r].pc = "stage"
    /\ fs' = [fs EXCEPT !.temp = File(r, calls[r].file_data)]
    /\ calls' = [calls EXCEPT ![r] = [@ EXCEPT !.pc = "convert"]]
    /\ UNCHANGED <<is_monitoring, last_processed_file>>

\* predictClass.py line 77: convert_mat_to_npz(temp_mat_path) reads whatever
\* the path holds now; its exception leaves through the finally block
ConvertStaged(r) ==
    /\ calls[r].pc = "convert"
    /\ LET c == ConvertFile(fs.temp)
       IN calls' = [calls EXCEPT ![r] =
                       IF c.status = "ok"
                       THEN [@ EXCEPT !.pc = "classify", !.read = fs.temp, !.conv = c]
                       ELSE [@ EXCEPT !.pc = "cleanup", !.read = fs.temp, !.conv = c,
                                      !.result = ErrorResult(Message(c))]]
    /\ UNCHANGED <<is_monitoring, last_processed_file, fs>>

\* predictClass.py lines 91-180: validation, model.predict (which raises on
\* a tensor that is not (9, 50001)) and fusion
Classify(r) ==
    /\ calls[r].pc = "classify"
    /\ LET c == calls[r].conv
           patterns == PatternsOfParsed(c, calls[r].read.bytes.noise)
       IN IF c.shape # <<Len(REQUIRED_SIGNALS), SAMPLES>>
          THEN calls' = [calls EXCEPT ![r] =
                            [@ EXCEPT !.pc = "cleanup", !.classified = TRUE,
                                      !.result = ErrorResult(
                                          [raised |-> "model.predict", kind |-> "shape",
                                           names |-> <<>>])]]
          ELSE \E p \in ServicePreds :
                  calls' = [calls EXCEPT ![r] =
                               [@ EXCEPT !.pc = "cleanup", !.classified = TRUE,
                                         !.result = SuccessResult(p, patterns, c.signals)]]
    /\ UNCHANGED <<is_monitoring, last_processed_file, fs>>

CleanupOnSuccessOnly(r) ==
    /\ calls[r].pc = "cleanup"
    /\ fs' = [fs EXCEPT !.temp = IF calls[r].result.status = "success" THEN NoFile ELSE @]
    /\ calls' = [calls EXCEPT ![r] = [@ EXCEPT !.pc = "respond"]]
    /\ UNCHANGED <<is_monitoring, last_processed_file>>

\* predictClass.py lines 182-195: the finally block removes the path if it
\* exists, then the result or the error dictionary is returned
Cleanup(r) ==
    /\ calls[r].pc = "cleanup"
    /\ fs' = [fs EXCEPT !.temp = NoFile]
    /\ calls' = [calls EXCEPT ![r] = [@ EXCEPT !.pc = "respond"]]
    /\ UNCHANGED <<is_monitoring, last_processed_file>>

\* app.py lines 102-107: jsonify(result), with the default status code
UploadRespond(r) ==
    /\ calls[r].pc = "respond"
    /\ calls[r].kind = "upload"
    /\ calls' = [calls EXCEPT ![r] =
                    [@ EXCEPT !.pc = "done",
                              !.response = [code |-> 200, body |-> calls[r].result]]]
    /\ UNCHANGED <<is_monitoring, last_processed_file, fs>>

\* app.py lines 183-220: the response is built from result["prediction"],
\* ...; on an error result that lookup raises KeyError('prediction'), which
\* the handler of lines 211-220 answers
PollRespond(r) ==
    /\ calls[r].pc = "respond"
    /\ calls[r].kind = "poll"
    /\ last_processed_file' = calls[r].latest
    /\ calls' = [calls EXCEPT ![r] =
                    [@ EXCEPT !.pc = "done",
                              !.response =
                                  IF calls[r].result.status = "success"
                                  THEN [code |-> 200,
                                        body |-> [status |-> "running",
                                                  timestamp |-> calls[r].latest,
                                                  prediction |->
                                                      [state |-> calls[r].result.prediction,
                                                       confidence |-> calls[r].result.confidence,
                                                       class_probabilities |->
                                                           calls[r].result.class_probabilities,
                                                       validation_patterns |->
                                                           calls[r].result.validation_patterns],
                                                  signals |-> calls[r].result.signals]]
                                  ELSE [code |-> 500,
                                        body |-> [status |-> "error",
                                                  error |-> [raised |-> "KeyError",
                                                             kind |-> "prediction",
                                                             names |-> <<>>],
                                                  prediction |-> Null,
                                                  timestamp |-> Null]]]]
    /\ UNCHANGED <<is_monitoring, fs>>

\* app.py lines 125-130: start-monitoring when monitoring is off
StartMonitoring ==
    /\ ~is_monitoring
    /\ is_monitoring' = TRUE
    /\ UNCHANGED <<last_processed_file, fs, calls>>

StopKeepsLastFile ==
    /\ is_monitoring' = FALSE
    /\ UNCHANGED <<last_processed_file, fs, calls>>

\* app.py lines 139-142: stop-monitoring
StopMonitoring ==
    /\ is_monitoring' = FALSE
    /\ last_processed_file' = 0
    /\ UNCHANGED <<fs, calls>>

(***************************************************************************)
(* save_signals (machine.py lines 173-258) on the directory the polling    *)
(* endpoint reads, and the polling endpoint step by step. os.listdir       *)
(* returns a snapshot; every os.remove, the creation of the new file and   *)
(* the end of savemat's writing are steps of their own, and so are the     *)
(* listing, the getctime calls and the open of the endpoint.               *)
(***************************************************************************)
\* a file savemat has created and not yet written completely
Partial == Garbage

\* dictionaries a caller can pass to save_signals: two complete ones, one
\* without the key 'vibrad', one whose i2 is a sample short
WithoutVibrad == [n \in RequiredSet \ {"vibrad"} |-> Synthesize("none", 1)[n]]

ShortChannel == [Synthesize("none", 1) EXCEPT !["i2"].shape = <<SAMPLE_RATE - 1>>]

SaveInputs ==
    {Synthesize("none", 1), Synthesize("desiquilibre", 1), WithoutVibrad, ShortChannel}

\* directories that hold files of earlier rounds of the generator only
ValidDirs ==
    {dir \in GeneratedDirs : \A t \in DOMAIN dir : dir[t] = Fixture("cassure", 3)}

\* lines 185-187: the new file, by its creation time (the files of the
\* initial directory have the times 1 and 2)
NewTime == gen.round + 2

\* line 173: save_signals is called with some dictionary
SaveCall ==
    /\ gen.pc \in {"idle", "saved", "raised"}
    /\ gen.round < MaxRounds
    /\ \E signals \in SaveInputs :
          gen' = [gen EXCEPT !.pc = "save_list", !.round = gen.round + 1,
                             !.signals = signals]
    /\ UNCHANGED fs

\* lines 270-277: the loop of run_signal_generator; generate_signals returns
\* nine channels of sample_rate samples, from the first attempt or, when no
\* attempt is accepted, from the last
GeneratorLoop ==
    /\ gen.pc \in {"idle", "saved"}
    /\ gen.round < MaxRounds
    /\ LET fault == FAULT_TYPES[gen.fault_index + 1]
           attempt == IF fault = "none" \/ GeneratedVerdicts[fault, <<>>, fault]
                      THEN 1 ELSE MAX_ATTEMPTS
       IN gen' = [gen EXCEPT !.pc = "save_list", !.round = gen.round + 1,
                             !.current_fault = fault,
                             !.fault_index = (gen.fault_index + 1) % Len(FAULT_TYPES),
                             !.attempt = attempt,
                             !.signals = Synthesize(fault, attempt)]
    /\ UNCHANGED fs

\* line 176: os.listdir(self.output_dir)
SaveListDir ==
    /\ gen.pc = "save_list"
    /\ gen' = [gen EXCEPT !.pc = "delete", !.listing = DOMAIN fs.generated,
                          !.pending = DOMAIN fs.generated]
    /\ UNCHANGED fs

\* lines 177-183: one os.remove of the loop (its exception is printed)
SaveRemove ==
    /\ gen.pc = "delete"
    /\ \E f \in gen.pending :
          /\ fs' = [fs EXCEPT !.generated =
                       [t \in (DOMAIN fs.generated) \ {f} |-> fs.generated[t]]]
          /\ gen' = [gen EXCEPT !.pending = gen.pending \ {f}]

\* lines 189-203: after the loop, the checks of the keys and of the shapes
SaveCheck ==
    /\ gen.pc = "delete"
    /\ gen.pending = {}
    /\ gen' = [gen EXCEPT !.pc = IF SaveRejects(gen.signals) THEN "raised" ELSE "create"]
    /\ UNCHANGED fs

\* line 231: savemat opens the file for writing
SaveCreate ==
    /\ gen.pc = "create"
    /\ fs' = [fs EXCEPT !.generated =
                 [t \in (DOMAIN fs.generated) \cup {NewTime} |->
                     IF t = NewTime THEN Partial ELSE fs.generated[t]]]
    /\ gen' = [gen EXCEPT !.pc = "writing"]

\* lines 231-255: savemat has written the file; the verification only reads
SaveFinish ==
    /\ gen.pc = "writing"
    /\ fs' = [fs EXCEPT !.generated =
                 [t \in (DOMAIN fs.generated) \cup {NewTime} |->
                     IF t = NewTime THEN MatBytes(SavedFile(gen.signals), <<>>)
                     ELSE fs.generated[t]]]
    /\ gen' = [gen EXCEPT !.pc = "saved"]

\* app.py lines 211-220 after an exception of the handler itself
HandlerError(raised) ==
    [code |-> 500,
     body |-> [status |-> "error",
               error |-> [raised |-> raised, kind |-> "handler", names |-> <<>>],
               prediction |-> Null, timestamp |-> Null]]

\* app.py lines 159-168: the directory is listed
PollListDir(r) ==
    /\ calls[r].pc = "list"
    /\ calls' = [calls EXCEPT ![r] =
                    IF DOMAIN fs.generated = {}
                    THEN [@ EXCEPT !.pc = "done",
                                   !.response =
                                       [code |-> 200,
                                        body |-> [status |-> "waiting", prediction |-> Null,
                                                  timestamp |-> Null]]]
                    ELSE [@ EXCEPT !.pc = "stat", !.listed = DOMAIN fs.generated]]
    /\ UNCHANGED <<is_monitoring, last_processed_file, fs>>

\* app.py lines 171-173: os.path.getctime of every listed file; a file that
\* is gone raises FileNotFoundError
PollPickLatest(r) ==
    /\ calls[r].pc = "stat"
    /\ calls' = [calls EXCEPT ![r] =
                    IF calls[r].listed \subseteq DOMAIN fs.generated
                    THEN [@ EXCEPT !.pc = "open", !.latest = Latest(calls[r].listed)]
                    ELSE [@ EXCEPT !.pc = "done",
                                   !.response = HandlerError("FileNotFoundError")]]
    /\ UNCHANGED <<is_monitoring, last_processed_file, fs>>

\* app.py lines 179-180: the file is opened and read as it is now
PollOpen(r) ==
    /\ calls[r].pc = "open"
    /\ calls' = [calls EXCEPT ![r] =
                    IF calls[r].latest \in DOMAIN fs.generated
                    THEN [@ EXCEPT !.pc = "stage",
                                   !.file_data = fs.generated[calls[r].latest]]
                    ELSE [@ EXCEPT !.pc = "done",
                                   !.response = HandlerError("FileNotFoundError")]]
    /\ UNCHANGED <<is_monitoring, last_processed_file, fs>>

(***************************************************************************)
(* The start and stop endpoints as requests with an answer                 *)
(***************************************************************************)
NoControl == [pc |-> "idle", request |-> "none", response |-> NoResponse]

Answer(request, code, status) ==
    [pc |-> "responded", request |-> request,
     response |-> [code |-> code, body |-> [status |-> status]]]

\* app.py lines 121-133: 400 'already_running' when the flag is set,
\* otherwise the flag is set and the answer is 'started'
StartRequest ==
    /\ control.pc = "idle"
    /\ \/ /\ is_monitoring
          /\ control' = Answer("start", 400, "already_running")
          /\ UNCHANGED serviceVars
       \/ /\ StartMonitoring
          /\ control' = Answer("start", 200, "started")

\* app.py lines 135-145
StopRequest ==
    /\ control.pc = "idle"
    /\ StopMonitoring
    /\ control' = Answer("stop", 200, "stopped")

\* the client has read the answer
ControlReceive ==
    /\ control.pc = "responded"
    /\ control' = [control EXCEPT !.pc = "idle"]
    /\ UNCHANGED serviceVars

IdleFusion ==
    /\ pc = "idle"
    /\ signal_patterns = NoPattern
    /\ pred = NoPred
    /\ result = NoResult

IdleParse ==
    /\ container = EmptyContainer
    /\ conv = NotRun
    /\ extr = NotRun

IdleSpectral ==
    /\ spectrum = [k \in CandBins |-> 0]
    /\ dominant = NotAnalysed

IdleGen ==
    gen = [pc |-> "idle", fault_index |-> 0, current_fault |-> "none", attempt |-> 0,
           round |-> 0, signals |-> NoSignals, files |-> {}, noise |-> <<>>,
           warned |-> FALSE, listing |-> {}, pending |-> {}]

IdleControl == control = NoControl

IdleAssembly ==
    assembly = [pc |-> "idle", signals |-> NoTensor, tensor |-> NoTensor,
                phase_balance |-> FALSE]

IdleService ==
    /\ is_monitoring = FALSE
    /\ last_processed_file = 0
    /\ fs = [uploads |-> EmptyMap, temp |-> NoFile, generated |-> EmptyMap]
    /\ calls = [r \in Calls |-> IdleCall]

InitFusion ==
    /\ pc = "validate"
    /\ signal_patterns = NoPattern
    /\ pred = NoPred
    /\ result = NoResult
    /\ IdleParse
    /\ IdleSpectral
    /\ IdleGen
    /\ IdleService
    /\ IdleAssembly
    /\ IdleControl

NextFusion ==
    \/ (Validate /\ UNCHANGED <<parseVars, spectralVars, gen, serviceVars, assembly, control>>)
    \/ (ValidateRaises /\ UNCHANGED <<parseVars, spectralVars, gen, serviceVars, assembly, control>>)
    \/ (Predict /\ UNCHANGED <<parseVars, spectralVars, gen, serviceVars, assembly, control>>)
    \/ (PredictFails /\ UNCHANGED <<parseVars, spectralVars, gen, serviceVars, assembly, control>>)
    \/ (FuseAndReturn /\ UNCHANGED <<parseVars, spectralVars, gen, serviceVars, assembly, control>>)

SpecFusion == InitFusion /\ [][NextFusion]_vars

InitParse ==
    /\ container \in Containers
    /\ conv = NotRun
    /\ extr = NotRun
    /\ IdleFusion
    /\ IdleSpectral
    /\ IdleGen
    /\ IdleService
    /\ IdleAssembly
    /\ IdleControl

NextParse ==
    \/ (Convert /\ UNCHANGED <<fusionVars, spectralVars, gen, serviceVars, assembly, control>>)
    \/ (Extract /\ UNCHANGED <<fusionVars, spectralVars, gen, serviceVars, assembly, control>>)

SpecParse == InitParse /\ [][NextParse]_vars

InitSpectral ==
    /\ spectrum \in Spectra
    /\ dominant = NotAnalysed
    /\ IdleFusion
    /\ IdleParse
    /\ IdleGen
    /\ IdleService
    /\ IdleAssembly
    /\ IdleControl

NextSpectral == Analyse /\ UNCHANGED <<fusionVars, parseVars, gen, serviceVars, assembly, control>>

SpecSpectral == InitSpectral /\ [][NextSpectral]_vars

InitGen ==
    /\ \E old \in SUBSET OldFiles :
          gen = [pc |-> "loop", fault_index |-> 0, current_fault |-> "none", attempt |-> 0,
                 round |-> 0, signals |-> NoSignals, files |-> old, noise |-> <<>>,
                 warned |-> FALSE, listing |-> {}, pending |-> {}]
    /\ container = EmptyContainer
    /\ conv = NotRun
    /\ extr = NotRun
    /\ IdleFusion
    /\ IdleSpectral
    /\ IdleService
    /\ IdleAssembly
    /\ IdleControl

NextGen ==
    \/ (LoopStep /\ UNCHANGED <<fusionVars, extr, serviceVars, assembly, control>>)
    \/ (Generate /\ UNCHANGED <<fusionVars, extr, serviceVars, assembly, control>>)
    \/ (VerifyAccepts /\ UNCHANGED <<fusionVars, extr, serviceVars, assembly, control>>)
    \/ (VerifyRejects /\ UNCHANGED <<fusionVars, extr, serviceVars, assembly, control>>)
    \/ (SaveDelete /\ UNCHANGED <<fusionVars, extr, serviceVars, assembly, control>>)
    \/ (SaveWrite /\ UNCHANGED <<fusionVars, extr, serviceVars, assembly, control>>)
    \/ (ParseBack /\ UNCHANGED <<fusionVars, extr, serviceVars, assembly, control>>)
    \/ (ValidateParsed /\ UNCHANGED <<fusionVars, extr, serviceVars, assembly, control>>)

SpecGen == InitGen /\ [][NextGen]_vars

\* lines 135-171: the steps of one call of generate_signals
GenerateSignals ==
    (Generate \/ VerifyAccepts \/ VerifyRejects) /\ UNCHANGED <<fusionVars, extr, serviceVars, assembly, control>>

\* the generator is a sequential loop: a call of generate_signals that can
\* take a step takes it
SpecGenFair == SpecGen /\ WF_vars(GenerateSignals)

InitService ==
    /\ is_monitoring = FALSE
    /\ last_processed_file = 0
    /\ \E dir \in GeneratedDirs :
          fs = [uploads |-> EmptyMap, temp |-> NoFile, generated |-> dir]
    /\ calls = [r \in Calls |-> IdleCall]
    /\ IdleFusion
    /\ IdleParse
    /\ IdleSpectral
    /\ IdleGen
    /\ IdleAssembly
    /\ IdleControl

NextService ==
    \/ (\E r \in Calls : UploadRejected(r)) /\ UNCHANGED <<fusionVars, parseVars, spectralVars, gen, assembly, control>>
    \/ (\E r \in Calls : UploadSave(r)) /\ UNCHANGED <<fusionVars, parseVars, spectralVars, gen, assembly, control>>
    \/ (\E r \in Calls : UploadRead(r)) /\ UNCHANGED <<fusionVars, parseVars, spectralVars, gen, assembly, control>>
    \/ (\E r \in Calls : PollCheck(r)) /\ UNCHANGED <<fusionVars, parseVars, spectralVars, gen, assembly, control>>
    \/ (\E r \in Calls : PollList(r)) /\ UNCHANGED <<fusionVars, parseVars, spectralVars, gen, assembly, control>>
    \/ (\E r \in Calls : Stage(r)) /\ UNCHANGED <<fusionVars, parseVars, spectralVars, gen, assembly, control>>
    \/ (\E r \in Calls : ConvertStaged(r)) /\ UNCHANGED <<fusionVars, parseVars, spectralVars, gen, assembly, control>>
    \/ (\E r \in Calls : Classify(r)) /\ UNCHANGED <<fusionVars, parseVars, spectralVars, gen, assembly, control>>
    \/ (\E r \in Calls : Cleanup(r)) /\ UNCHANGED <<fusionVars, parseVars, spectralVars, gen, assembly, control>>
    \/ (\E r \in Calls : UploadRespond(r)) /\ UNCHANGED <<fusionVars, parseVars, spectralVars, gen, assembly, control>>
    \/ (\E r \in Calls : PollRespond(r)) /\ UNCHANGED <<fusionVars, parseVars, spectralVars, gen, assembly, control>>
    \/ (StartMonitoring /\ UNCHANGED <<fusionVars, parseVars, spectralVars, gen, assembly, control>>)
    \/ (StopMonitoring /\ UNCHANGED <<fusionVars, parseVars, spectralVars, gen, assembly, control>>)

SpecService == InitService /\ [][NextService]_vars

\* a request between its first step and its response
Busy(r) == calls[r].pc \notin {"idle", "done"}

\* no other request is in flight
Alone(r) == \A q \in Calls \ {r} : ~Busy(q)

\* a single client that waits for each answer before it sends the next
\* request
NextServiceSeq ==
    \/ (\E r \in Calls : Alone(r) /\ UploadRejected(r)) /\ UNCHANGED <<fusionVars, parseVars, spectralVars, gen, assembly, control>>
    \/ (\E r \in Calls : Alone(r) /\ UploadSave(r)) /\ UNCHANGED <<fusionVars, parseVars, spectralVars, gen, assembly, control>>
    \/ (\E r \in Calls : Alone(r) /\ UploadRead(r)) /\ UNCHANGED <<fusionVars, parseVars, spectralVars, gen, assembly, control>>
    \/ (\E r \in Calls : Alone(r) /\ PollCheck(r)) /\ UNCHANGED <<fusionVars, parseVars, spectralVars, gen, assembly, control>>
    \/ (\E r \in Calls : Alone(r) /\ PollList(r)) /\ UNCHANGED <<fusionVars, parseVars, spectralVars, gen, assembly, control>>
    \/ (\E r \in Calls : Alone(r) /\ Stage(r)) /\ UNCHANGED <<fusionVars, parseVars, spectralVars, gen, assembly, control>>
    \/ (\E r \in Calls : Alone(r) /\ ConvertStaged(r)) /\ UNCHANGED <<fusionVars, parseVars, spectralVars, gen, assembly, control>>
    \/ (\E r \in Calls : Alone(r) /\ Classify(r)) /\ UNCHANGED <<fusionVars, parseVars, spectralVars, gen, assembly, control>>
    \/ (\E r \in Calls : Alone(r) /\ Cleanup(r)) /\ UNCHANGED <<fusionVars, parseVars, spectralVars, gen, assembly, control>>
    \/ (\E r \in Calls : Alone(r) /\ UploadRespond(r)) /\ UNCHANGED <<fusionVars, parseVars, spectralVars, gen, assembly, control>>
    \/ (\E r \in Calls : Alone(r) /\ PollRespond(r)) /\ UNCHANGED <<fusionVars, parseVars, spectralVars, gen, assembly, control>>
    \/ (StartMonitoring /\ UNCHANGED <<fusionVars, parseVars, spectralVars, gen, assembly, control>>)
    \/ (StopMonitoring /\ UNCHANGED <<fusionVars, parseVars, spectralVars, gen, assembly, control>>)

SpecServiceSeq == InitService /\ [][NextServiceSeq]_vars

\* utils.py line 91: the nine rows stacked in the order of REQUIRED_SIGNALS;
\* the three currents are drawn independently, the other six rows are alike
InitAssembly ==
    /\ \E currents \in [CurrentSet -> Rows], other \in Rows :
          assembly = [pc |-> "stacked",
                      signals |-> [c \in RequiredSet |->
                                      IF c \in CurrentSet THEN currents[c] ELSE other],
                      tensor |-> NoTensor,
                      phase_balance |-> FALSE]
    /\ IdleFusion
    /\ IdleParse
    /\ IdleSpectral
    /\ IdleGen
    /\ IdleService
    /\ IdleControl

NextAssembly ==
    \/ (Normalize /\ UNCHANGED <<fusionVars, parseVars, spectralVars, gen, serviceVars, control>>)
    \/ (ValidateBalance /\ UNCHANGED <<fusionVars, parseVars, spectralVars, gen, serviceVars, control>>)

SpecAssembly == InitAssembly /\ [][NextAssembly]_vars

\* save_signals called again and again on a directory of earlier files
InitSave ==
    /\ is_monitoring = FALSE
    /\ last_processed_file = 0
    /\ \E dir \in GeneratedDirs :
          fs = [uploads |-> EmptyMap, temp |-> NoFile, generated |-> dir]
    /\ calls = [r \in Calls |-> IdleCall]
    /\ IdleFusion
    /\ IdleParse
    /\ IdleSpectral
    /\ IdleGen
    /\ IdleAssembly
    /\ IdleControl

saveFrame ==
    <<fusionVars, parseVars, spectralVars, is_monitoring, last_processed_file, calls, assembly, control>>

NextSave ==
    \/ (SaveCall /\ UNCHANGED saveFrame)
    \/ (SaveListDir /\ UNCHANGED saveFrame)
    \/ (SaveRemove /\ UNCHANGED saveFrame)
    \/ (SaveCheck /\ UNCHANGED saveFrame)
    \/ (SaveCreate /\ UNCHANGED saveFrame)
    \/ (SaveFinish /\ UNCHANGED saveFrame)

SpecSave == InitSave /\ [][NextSave]_vars

\* the generator thread beside the server: polls arrive one at a time
InitMonitor ==
    /\ is_monitoring = FALSE
    /\ last_processed_file = 0
    /\ \E dir \in ValidDirs :
          fs = [uploads |-> EmptyMap, temp |-> NoFile, generated |-> dir]
    /\ calls = [r \in Calls |-> IdleCall]
    /\ IdleFusion
    /\ IdleParse
    /\ IdleSpectral
    /\ IdleGen
    /\ IdleAssembly
    /\ IdleControl

pollFrame == <<fusionVars, parseVars, spectralVars, gen, assembly, control>>

NextMonitor ==
    \/ (StartMonitoring /\ UNCHANGED pollFrame)
    \/ (\E r \in Calls : Alone(r) /\ PollCheck(r)) /\ UNCHANGED pollFrame
    \/ (\E r \in Calls : PollListDir(r)) /\ UNCHANGED pollFrame
    \/ (\E r \in Calls : PollPickLatest(r)) /\ UNCHANGED pollFrame
    \/ (\E r \in Calls : PollOpen(r)) /\ UNCHANGED pollFrame
    \/ (\E r \in Calls : Stage(r)) /\ UNCHANGED pollFrame
    \/ (\E r \in Calls : ConvertStaged(r)) /\ UNCHANGED pollFrame
    \/ (\E r \in Calls : Classify(r)) /\ UNCHANGED pollFrame
    \/ (\E r \in Calls : Cleanup(r)) /\ UNCHANGED pollFrame
    \/ (\E r \in Calls : PollRespond(r)) /\ UNCHANGED pollFrame
    \/ (GeneratorLoop /\ UNCHANGED saveFrame)
    \/ (SaveListDir /\ UNCHANGED saveFrame)
    \/ (SaveRemove /\ UNCHANGED saveFrame)
    \/ (SaveCheck /\ UNCHANGED saveFrame)
    \/ (SaveCreate /\ UNCHANGED saveFrame)
    \/ (SaveFinish /\ UNCHANGED saveFrame)

SpecMonitor == InitMonitor /\ [][NextMonitor]_vars

\* start, stop and poll requests of one client, in any order
InitControl == InitService

controlFrame == <<fusionVars, parseVars, spectralVars, gen, assembly>>

NextControl ==
    \/ (StartRequest /\ UNCHANGED controlFrame)
    \/ (StopRequest /\ UNCHANGED controlFrame)
    \/ (ControlReceive /\ UNCHANGED controlFrame)
    \/ (\E r \in Calls : Alone(r) /\ PollCheck(r)) /\ UNCHANGED <<controlFrame, control>>
    \/ (\E r \in Calls : PollList(r)) /\ UNCHANGED <<controlFrame, control>>
    \/ (\E r \in Calls : Stage(r)) /\ UNCHANGED <<controlFrame, control>>
    \/ (\E r \in Calls : ConvertStaged(r)) /\ UNCHANGED <<controlFrame, control>>
    \/ (\E r \in Calls : Classify(r)) /\ UNCHANGED <<controlFrame, control>>
    \/ (\E r \in Calls : Cleanup(r)) /\ UNCHANGED <<controlFrame, control>>
    \/ (\E r \in Calls : PollRespond(r)) /\ UNCHANGED <<controlFrame, control>>

SpecControl == InitControl /\ [][NextControl]_vars

(***************************************************************************)
(* Claims about the fusion step (specification SpecFusion)                 *)
(***************************************************************************)
Returned == pc = "done" /\ result.status = "success"

\* the agreement test of the claims, spelled out per label
Agrees(label, patterns) ==
    \/ label = "sain" /\ patterns.base_freq
    \/ label = "desiquilibre" /\ patterns.mod_25hz /\ patterns.phase_balance
    \/ label = "cassure" /\ patterns.sideband_100hz

\* the largest entry of the raw output and the label of its first occurrence
RawMax == CHOOSE m \in {pred[i] : i \in 1..3} : \A j \in 1..3 : pred[j] <= m

RawLabel ==
    IF pred[1] = RawMax THEN "cassure"
    ELSE IF pred[2] = RawMax THEN "sain"
    ELSE "desiquilibre"

RawDistribution ==
    [c \in ClassSet |->
        IF c = "cassure" THEN pred[1] ELSE IF c = "sain" THEN pred[2] ELSE pred[3]]

OverrideAttempted ==
    /\ signal_patterns.present
    /\ (~Agrees(RawLabel, signal_patterns) \/ RawMax < 70)

HealthyEvidence ==
    /\ signal_patterns.base_freq
    /\ ~signal_patterns.sideband_100hz
    /\ ~signal_patterns.mod_25hz

\* C1: when a pattern is present, the prediction is invalid or below 0.7, and
\* the pattern has base_freq without sideband_100hz and mod_25hz, the result is
\* 'sain' with confidence max(raw confidence, 0.65), the two fault
\* probabilities are at most 0.3 and the 'sain' probability is at least the
\* new confidence; the distribution {cassure 0.5, sain 0.3, desiquilibre 0.2}
\* with pattern {base_freq, phase_balance} is relabelled 'sain' with
\* confidence >= 0.65.
C1_ForceHealthy ==
    (Returned /\ OverrideAttempted /\ HealthyEvidence) =>
        /\ result.prediction = "sain"
        /\ result.confidence = (IF RawMax >= 65 THEN RawMax ELSE 65)
        /\ result.class_probabilities["cassure"] <= 30
        /\ result.class_probabilities["desiquilibre"] <= 30
        /\ result.class_probabilities["sain"] >= result.confidence

C1_Witness ==
    /\ Returned
    /\ pred = <<50, 30, 20>>
    /\ signal_patterns = [present |-> TRUE, base_freq |-> TRUE, mod_25hz |-> FALSE,
                          sideband_100hz |-> FALSE, phase_balance |-> TRUE]
    /\ result.prediction = "sain"
    /\ result.confidence >= 65

\* C2: pass-through: with a present pattern, if the argmax label passes its
\* agreement test and the raw confidence is at least 0.7, the returned label,
\* confidence and class probabilities are the raw ones.
C2_PassThrough ==
    (Returned /\ signal_patterns.present
        /\ Agrees(RawLabel, signal_patterns) /\ RawMax >= 70) =>
        /\ result.prediction = RawLabel
        /\ result.confidence = RawMax
        /\ result.class_probabilities = RawDistribution

C2_Witness ==
    /\ Returned
    /\ pred = <<5, 95, 0>>
    /\ signal_patterns.present
    /\ signal_patterns.base_freq
    /\ ~signal_patterns.mod_25hz
    /\ ~signal_patterns.sideband_100hz
    /\ result.prediction = "sain"
    /\ result.confidence = 95

\* C3: when an override is attempted but the force-healthy condition does not
\* hold, the returned label is the argmax label, the confidence is
\* min(raw confidence, 0.6) and the class probabilities are the raw ones.
C3_LowTrust ==
    (Returned /\ OverrideAttempted /\ ~HealthyEvidence) =>
        /\ result.prediction = RawLabel
        /\ result.confidence = (IF RawMax <= 60 THEN RawMax ELSE 60)
        /\ result.class_probabilities = RawDistribution

C3_Witness ==
    /\ Returned
    /\ pred = <<95, 5, 0>>
    /\ signal_patterns.present
    /\ ~signal_patterns.sideband_100hz
    /\ signal_patterns.mod_25hz
    /\ result.prediction = "cassure"
    /\ result.confidence = 60

\* C4: a failing spectral validation yields an absent pattern, and with an
\* absent pattern the call returns status 'success' with the argmax label in
\* the order [cassure, sain, desiquilibre], the raw maximum and the raw
\* distribution; the only error result of such a call is the classifier's.
C4_AbsentPattern ==
    /\ (pc \in {"predict", "fuse"} => result = NoResult)
    /\ (pc = "done" /\ ~signal_patterns.present) =>
        \/ /\ result.status = "success"
           /\ result.prediction = RawLabel
           /\ result.confidence = RawMax
           /\ result.class_probabilities = RawDistribution
           /\ result.validation_patterns = NoPattern
        \/ /\ result.status = "error"
           /\ result.error = "model.predict"

C4_Witness ==
    /\ Returned
    /\ ~signal_patterns.present
    /\ pred = <<20, 30, 50>>
    /\ result.prediction = "desiquilibre"

\* C23: in every 'success' result, for every raw output with entries in
\* [0, 1] and every pattern, present or absent, the confidence lies in [0, 1]
\* and does not exceed the returned class probability of the returned label.
C23_ConfidenceBelowProbability ==
    Returned =>
        /\ 0 <= result.confidence
        /\ result.confidence <= 100
        /\ result.confidence <= result.class_probabilities[result.prediction]

C23_Witness ==
    /\ Returned
    /\ signal_patterns.present
    /\ pred = <<20, 5, 75>>
    /\ ~signal_patterns.mod_25hz
    /\ signal_patterns.sideband_100hz
    /\ result.prediction = "desiquilibre"
    /\ result.confidence = 60
    /\ result.class_probabilities["desiquilibre"] = 75

\* C24: the returned label is the argmax label or 'sain', and it differs from
\* the argmax label only when the pattern has base_freq and neither mod_25hz
\* nor sideband_100hz.
C24_NeverRelabelsToFault ==
    Returned =>
        /\ result.prediction \in {RawLabel, "sain"}
        /\ (result.prediction # RawLabel =>
               signal_patterns.present /\ HealthyEvidence)

C24_Witness ==
    /\ Returned
    /\ RawLabel = "desiquilibre"
    /\ RawMax = 95
    /\ signal_patterns.present
    /\ HealthyEvidence
    /\ ~signal_patterns.phase_balance
    /\ result.prediction = "sain"

\* the sum of a class-probability dictionary
SumProbs(d) == d["cassure"] + d["sain"] + d["desiquilibre"]

\* C25: whenever the raw output sums to 1, the three returned class
\* probabilities sum to 1, in every branch of the fusion.
C25_ProbabilitiesSumToOne ==
    (Returned /\ pred[1] + pred[2] + pred[3] = 100) =>
        SumProbs(result.class_probabilities) = 100

(***************************************************************************)
(* Claims about the parsers and the assembly (specification SpecParse)     *)
(***************************************************************************)
\* convert_mat_to_npz ran and reached its validation stage (line 80)
Validated == conv # NotRun /\ conv.stage # "parse"

\* the required names the channel map does not hold
Absent == RequiredSet \ DOMAIN conv.signals

SeqToSet(q) == {q[i] : i \in 1..Len(q)}

\* C5: the validation stage of convert_mat_to_npz fails with a
\* missing-channel error iff at least one of the 9 required names is absent
\* from the channel map, and the error enumerates exactly the absent names.
C5_Completeness ==
    Validated =>
        /\ (conv.status = "error" /\ conv.kind = "missing") <=> (Absent # {})
        /\ (Absent # {}) =>
              /\ SeqToSet(conv.missing) = Absent
              /\ Len(conv.missing) = Cardinality(Absent)

C5_Witness ==
    /\ Validated
    /\ Absent = {"i2", "vibrad"}
    /\ conv.status = "error"
    /\ conv.missing = <<"i2", "vibrad">>

\* the number of samples along the first axis; a scalar is a single sample
SampleCount(d) == IF d.shape = <<>> THEN 1 ELSE d.shape[1]

\* the length check of lines 86-88 rejected a channel
ShapeError == conv.status = "error" /\ conv.kind \in {"length", "unsized"}

\* C6: for a channel map holding all 9 required names, assembly fails with a
\* shape error iff some channel's length differs from 50001, and on success
\* the output has shape (9, 50001).
C6_Shape ==
    (Validated /\ Absent = {}) =>
        /\ ShapeError <=> (\E n \in RequiredSet : SampleCount(conv.signals[n]) # 50001)
        /\ (conv.status = "ok") => (conv.shape = <<9, 50001>>)

\* what the structured layout supplies when each record is stored under the
\* name it carries (second-to-last segment of a path, quotes stripped)
CarriedName(e) == e.Name[IF Len(e.Name) >= 2 THEN Len(e.Name) - 1 ELSE 1].text

Carriers(n) ==
    {i \in 1..Len(container.Y) :
        container.Y[i].hasData /\ container.Y[i].hasName /\ CarriedName(container.Y[i]) = n}

StructuredNames ==
    IF HasEssaisKey(container) /\ container.hasY
    THEN {n \in RequiredSet : Carriers(n) # {}}
    ELSE {}

FlatNames == {n \in (DOMAIN container.flat) \cap RequiredSet : IsNdarray(container.flat[n])}

\* the records list the channels in the canonical order (a prefix of it)
CanonicalRecords ==
    \A i \in 1..Len(container.Y) :
        i <= 9 /\ CarriedName(container.Y[i]) = REQUIRED_SIGNALS[i]

\* C7: whenever the structured layout recovers fewer than 9 channels, the
\* flat layout is attempted for every still-missing name, so a container
\* whose records supply some channels and whose flat entries supply the rest
\* yields all 9; a name present in both keeps the structured value.
C7_FlatFillsMissing ==
    (Validated /\ CanonicalRecords /\ DOMAIN container.attrs = {}) =>
        \A n \in RequiredSet :
            /\ (n \in StructuredNames) =>
                  (n \in DOMAIN conv.signals /\ conv.signals[n].src = "Y")
            /\ (n \in FlatNames \ StructuredNames) =>
                  (n \in DOMAIN conv.signals /\ conv.signals[n] = container.flat[n])

\* C8: in the structured layout a record's channel name is the second-to-last
\* segment of its Name with quotes stripped, records with other names are
\* dropped, and the data recovered for a channel name is the Data of the
\* record carrying that name, whatever the order of the records.
C8_KeyedByName ==
    (Validated /\ HasEssaisKey(container) /\ container.hasY
        /\ \A i \in 1..Len(container.Y) : Len(container.Y[i].Name) >= 2) =>
        /\ \A n \in DOMAIN conv.signals :
              conv.signals[n].src = "Y" => conv.signals[n].name = n
        /\ \A n \in StructuredNames :
              /\ n \in DOMAIN conv.signals
              /\ \E i \in Carriers(n) : conv.signals[n] = container.Y[i].Data

(***************************************************************************)
(* Claims about the spectral validator (specification SpecSpectral)        *)
(***************************************************************************)
\* the frequencies of the bins of the non-negative half (DC included) whose
\* magnitude exceeds mean + 2*std
NonNegativeDominant == {BinFreq(k) : k \in DominantBins(spectrum)}

\* the frequencies of the dominant bins of the positive half (DC excluded)
PositiveDominant == {BinFreq(k) : k \in DominantBins(spectrum) \ {0}}

\* C10: the dominant-frequency set holds the frequencies of the bins of the
\* non-negative half whose magnitude exceeds mean + 2*std: no dominant
\* positive-frequency bin is dropped and no other frequency is included,
\* also when the DC bin is dominant.
C10_DominantSet ==
    dominant.done =>
        /\ PositiveDominant \subseteq SeqToSet(dominant.freqs)
        /\ SeqToSet(dominant.freqs) \subseteq NonNegativeDominant

\* the frequencies the validator tests its flags on
Tested == SeqToSet(dominant.freqs)

ParsedBack == gen.pc = "loop" /\ gen.round > 0 /\ conv # NotRun

\* C9: for each fault type, parsing the container written by the serializer
\* from the synthesized channel set recovers all 9 required names, each with
\* exactly 50001 samples, each name mapped to the samples synthesized under
\* that name.
C9_RoundTrip ==
    ParsedBack =>
        /\ conv.status = "ok"
        /\ DOMAIN conv.signals = RequiredSet
        /\ \A n \in RequiredSet :
              /\ conv.signals[n].shape = <<50001>>
              /\ conv.signals[n].name = n
              /\ conv.signals[n].fault = gen.current_fault
              /\ conv.signals[n].attempt = gen.attempt
              /\ conv.signals[n] = gen.signals[n]

C9_Witness ==
    /\ ParsedBack
    /\ dominant.done
    /\ gen.current_fault = "cassure"
    /\ gen.attempt = 3
    /\ conv.status = "ok"
    /\ conv.signals["vibrad"] = Datum("gen", "vibrad", "cassure", 3, <<50001>>)

\* the newest file holds a generated fixture of the fault type, has been
\* parsed back and its currents have been through the spectral validator
Checked(fault) ==
    /\ gen.pc = "loop"
    /\ gen.round > 0
    /\ gen.current_fault = fault
    /\ conv # NotRun
    /\ dominant.done

\* C12: the current channel i1 of a generated 'cassure' fixture has a
\* dominant spectral component near 100 Hz, so after serialization and
\* parsing the spectral validator reports sideband_100hz = True for it.
C12_CassureSideband ==
    Checked("cassure") =>
        /\ \E f \in NonNegativeDominant : 95 < f /\ f < 105
        /\ dominant.patterns.sideband_100hz

\* generate_signals has returned: save_signals is about to be called with
\* the returned channel set
GenerateReturned == gen.pc = "save"

\* C13: generate_signals terminates after at most 3 generation attempts; it
\* returns the first attempt that passes verification without generating
\* another, and when no attempt passes it returns the third with a warning;
\* the returned set holds all 9 required channels.
C13_BoundedRetry ==
    /\ [](/\ gen.attempt <= 3
          /\ GenerateReturned =>
                /\ gen.attempt \in 1..3
                /\ DOMAIN gen.signals = RequiredSet
                /\ \A n \in RequiredSet : gen.signals[n].attempt = gen.attempt
                /\ gen.warned <=> ~Verified
                /\ gen.warned => gen.attempt = 3)
    /\ [][gen.pc = "verify" =>
            /\ Verified => (gen'.pc = "save" /\ gen'.signals = gen.signals
                                /\ gen'.attempt = gen.attempt)
            /\ (~Verified /\ gen.attempt < 3) => gen'.pc = "generate"
            /\ (~Verified /\ gen.attempt = 3) => (gen'.pc = "save" /\ gen'.signals = gen.signals)]_vars
    /\ (gen.pc = "generate") ~> GenerateReturned

C13_Witness ==
    /\ GenerateReturned
    /\ gen.attempt = 3
    /\ gen.warned
    /\ DOMAIN gen.signals = RequiredSet

\* the validator's flags (predictClass.py lines 44-49) on the dominant
\* frequencies the verification step found in this attempt's i1
ValidatorFlags ==
    Patterns(VerifyDominant(SpectrumOf(gen.signals["i1"], gen.noise)), TRUE)

\* the validator's flag for the signature of the requested fault type
ExpectedSignature ==
    CASE gen.current_fault = "none" -> ValidatorFlags.base_freq
      [] gen.current_fault = "cassure" -> ValidatorFlags.sideband_100hz
      [] gen.current_fault = "desiquilibre" -> ValidatorFlags.mod_25hz

\* C14: for every generated signal and each of the three fault types as the
\* generator loop passes them (healthy as None), verify_signal_characteristics
\* accepts iff the validator's flag for that type (base_freq for healthy,
\* sideband_100hz for broken rotor, mod_25hz for imbalance) is true on the
\* same dominant frequencies.
C14_VerifyEquivalent ==
    (gen.pc = "verify") => (Verified <=> ExpectedSignature)

C16_CallsIndependent ==
    \A r \in Calls :
        calls[r].pc \in {"classify", "cleanup", "respond", "done"} /\ calls[r].kind # "idle"
            /\ calls[r].conv # NotRun
            => /\ calls[r].read.exists
               /\ calls[r].read.writer = r
               /\ calls[r].read.bytes = calls[r].file_data

\* the channel names a parse failure is about, from the parsed file itself
Offending(c) ==
    CASE c.kind = "missing" -> RequiredSet \ DOMAIN c.signals
      [] c.kind = "length" -> {n \in DOMAIN c.signals : c.signals[n].shape # <<SAMPLES>>}
      [] OTHER -> {}

\* C17: when the file cannot be parsed, the call stops before the classifier
\* and returns an error result; for a missing channel or a channel of the
\* wrong length the message names the channels.
C17_ParseFailureAborts ==
    \A r \in Calls :
        calls[r].pc \in {"cleanup", "respond", "done"} /\ calls[r].conv.status = "error"
            => /\ ~calls[r].classified
               /\ calls[r].result.status = "error"
               /\ calls[r].result.error.raised = "convert_mat_to_npz"
               /\ (calls[r].conv.kind \in {"missing", "length"}
                      => /\ calls[r].result.error.names # <<>>
                         /\ SeqToSet(calls[r].result.error.names)
                                \subseteq Offending(calls[r].conv))
               /\ (calls[r].conv.kind = "missing"
                      => SeqToSet(calls[r].result.error.names) = Offending(calls[r].conv))
               /\ (calls[r].kind = "upload" /\ calls[r].pc = "done"
                      => /\ calls[r].response.body.status = "error"
                         /\ calls[r].response.body.error = calls[r].result.error)

C17_Witness ==
    \E r, q \in Calls :
        /\ calls[r].pc = "done" /\ calls[q].pc = "done"
        /\ calls[r].kind = "upload" /\ calls[q].kind = "upload"
        /\ calls[r].conv.status = "error" /\ calls[r].conv.kind = "missing"
        /\ calls[r].result.error.names = <<"i2", "vibrad">>
        /\ calls[q].conv.status = "error" /\ calls[q].conv.kind = "length"
        /\ calls[q].result.error.names = <<"i2">>

\* C18: an upload that fails in the pipeline is answered with an HTTP error
\* status, not with 200.
C18_UploadErrorStatus ==
    \A r \in Calls :
        calls[r].kind = "upload" /\ calls[r].pc = "done" /\ calls[r].result # NoResult
            /\ calls[r].result.status = "error"
            => calls[r].response.code >= 400

\* C19: a poll whose newest file fails in the pipeline is answered with
\* status 'error' and the error message of the pipeline.
C19_PollErrorMessage ==
    \A r \in Calls :
        calls[r].kind = "poll" /\ calls[r].pc = "done" /\ calls[r].result # NoResult
            /\ calls[r].result.status = "error"
            => /\ calls[r].response.body.status = "error"
               /\ calls[r].response.body.error = calls[r].result.error

\* the answer predict_from_file gives for a file when nothing interferes
ExpectedSignals(bytes) == ConvertFile(File(0, bytes)).signals

Normalized == assembly.pc \in {"normalized", "validated"}

\* C21: every row of the assembled tensor equals
\* (input - mean(input)) / (std(input) + 1e-8) and has a mean within 1e-6 of
\* 0 and a standard deviation within 1e-6 of 1, for every channel set of the
\* right shape, a constant channel included.
C21_Normalization ==
    Normalized =>
        \A c \in RequiredSet :
            LET input == assembly.signals[c]
                row == assembly.tensor[c]
            IN /\ row.den = RowStd(input) + EPS
               /\ \A i \in 1..Len(Ramp) :
                      row.levels[i] * row.scale
                          = input.levels[i] * input.scale - RowMean(input)
               /\ Abs(RowMean(row)) * 1000000 <= row.den
               /\ Abs(RowStd(row) - row.den) * 1000000 <= row.den

C27_SaveAllOrNothing ==
    gen.pc = "raised" => DOMAIN fs.generated = gen.listing

\* C28: while monitoring is on and the generator runs beside the server, a
\* poll answers 'waiting', or 'running' with the prediction of a completely
\* written file, under every interleaving with save_signals; never an error.
C28_PollNeverSeesHalfSaved ==
    \A r \in Calls :
        calls[r].kind = "poll" /\ calls[r].pc = "done" /\ calls[r].saw_monitoring
            => /\ calls[r].response.body.status \in {"waiting", "running"}
               /\ (calls[r].response.body.status = "running"
                      => calls[r].file_data.decodable)

(***************************************************************************)
(* Claims about the monitoring flag (specification SpecControl)            *)
(***************************************************************************)
\* a step in which a start or a stop request is answered
Handled(request) ==
    control.pc = "idle" /\ control'.pc = "responded" /\ control'.request = request

\* a step in which request r arrives at the polling endpoint
PollIssued(r) == calls[r].pc = "idle" /\ calls'[r].kind = "poll"

\* C22: start-monitoring answers 'started' and sets the flag only when
\* monitoring is off, and answers 400 'already_running' without a change
\* when it is on; stop-monitoring always clears the flag and
\* last_processed_file; a poll issued after a stop and before the next start
\* returns 'stopped'.
C22_MonitoringFlag ==
    [][/\ (Handled("start") /\ ~is_monitoring
             => /\ is_monitoring'
                /\ control'.response.code = 200
                /\ control'.response.body.status = "started")
       /\ (Handled("start") /\ is_monitoring
             => /\ control'.response.code = 400
                /\ control'.response.body.status = "already_running"
                /\ UNCHANGED serviceVars)
       /\ (Handled("stop")
             => /\ ~is_monitoring'
                /\ last_processed_file' = 0
                /\ control'.response.body.status = "stopped")
       /\ (is_monitoring' # is_monitoring => Handled("start") \/ Handled("stop"))
       /\ \A r \in Calls :
             PollIssued(r) /\ control.request = "stop"
                 => /\ calls'[r].pc = "done"
                    /\ calls'[r].response.body.status = "stopped"
                    /\ calls'[r].response.body.prediction = Null]_vars

C22_Witness ==
    /\ control.request = "stop"
    /\ last_processed_file = 0
    /\ ~is_monitoring
    /\ \E r, q \in Calls :
          /\ calls[r].pc = "done"
          /\ calls[r].response.body.status = "running"
          /\ calls[q].pc = "done"
          /\ calls[q].response.body.status = "stopped"

====
